---- MODULE Spec2Model ----
(***************************************************************************)
(* Container packing and stacking engine of the AR cubagem/picking         *)
(* application: the box classifier (js/box.js), the stacking rules         *)
(* (stacking.js), the pallet engine CubagemModule (js/cubagem.js), the     *)
(* two truck engines PickingModule (grid: js/picking.js, open footprint:   *)
(* js/cubagem.js 319-511) and the session controller (js/app.js).          *)
(*                                                                         *)
(* Lengths are integers in units of 0.005 m, so that every dimension of    *)
(* the source and every half-dimension is an integer: 0.1 m = 20,          *)
(* 0.5 m = 100, 0.03 m = 6.  Volumes are in units of 0.005^3 m^3.          *)
(* A message is the sequence of the pieces of its template string.         *)
(***************************************************************************)
EXTENDS Integers, Sequences, FiniteSets, TLC

VARIABLES cubagemModule, pickingModule, currentMode, hitPose,
          removalCandidate, lastResult

vars == <<cubagemModule, pickingModule, currentMode, hitPose,
          removalCandidate, lastResult>>

(***************************************************************************)
(* Bounds of the model.                                                    *)
(***************************************************************************)
\* largest number of committed boxes an engine is driven to (Spec), and the
\* controller's two engines together (SpecApp)
MaxBoxes == 2

\* SpecApp: largest column index the screen clicks of the user select
MaxColumn == 1

(***************************************************************************)
(* js/box.js                                                               *)
(***************************************************************************)
VOLUME_HIGH == 400000

VOLUME_MID == 120000

DIM_MIN == 20

DIM_MAX == 100

Null == [isNull |-> TRUE]

\* the dimension triples Box.createRandom() is driven with
BoxDims ==
    { [w |-> 60,  h |-> 40,  d |-> 60],     \* 0.3 x 0.2 x 0.3, green
      [w |-> 40,  h |-> 40,  d |-> 40],     \* 0.2 x 0.2 x 0.2, blue
      [w |-> 100, h |-> 100, d |-> 100] }   \* 0.5 x 0.5 x 0.5, red

\* mutant of classifyVolume: a volume equal to a threshold goes up a category
classifyVolume_ThresholdGoesUp(volume) ==
    IF volume >= VOLUME_HIGH THEN "red"
    ELSE IF volume >= VOLUME_MID THEN "green"
    ELSE "blue"

classifyVolume(volume) ==
    IF volume > VOLUME_HIGH THEN "red"
    ELSE IF volume > VOLUME_MID THEN "green"
    ELSE "blue"

\* new Box(): dimensions, volume, category, and the mesh (position 0,0,0,
\* no parent, opacity 0.85, no emissive highlight)
NewBox(dims) ==
    [ width |-> dims.w, height |-> dims.h, depth |-> dims.d,
      volume |-> dims.w * dims.h * dims.d,
      colorCategory |-> classifyVolume(dims.w * dims.h * dims.d),
      x |-> 0, y |-> 0, z |-> 0,
      parent |-> FALSE,
      previewMode |-> FALSE,
      highlight |-> "none" ]

getColorName(box) ==
    CASE box.colorCategory = "red"   -> "Vermelha"
      [] box.colorCategory = "green" -> "Verde"
      [] box.colorCategory = "blue"  -> "Azul"

setPreviewMode(box, enabled) == [box EXCEPT !.previewMode = enabled]

setErrorHighlight(box, enabled) ==
    [box EXCEPT !.highlight = IF enabled THEN "error" ELSE "none"]

setRemovalHighlight(box, enabled) ==
    [box EXCEPT !.highlight = IF enabled THEN "removal" ELSE "none"]

setPosition(box, px, py, pz) == [box EXCEPT !.x = px, !.y = py, !.z = pz]

(***************************************************************************)
(* stacking.js                                                             *)
(***************************************************************************)
COLOR_WEIGHT(c) ==
    CASE c = "red"   -> 3
      [] c = "green" -> 2
      [] c = "blue"  -> 1

\* mutant of canStack: equal weights refused
canStack_StrictlyLighter(newBox, targetBox) ==
    IF targetBox = Null THEN TRUE
    ELSE COLOR_WEIGHT(newBox.colorCategory) < COLOR_WEIGHT(targetBox.colorCategory)

\* mutant of canStack: only boxes of equal weight may stack
canStack_OnlyEqualWeight(newBox, targetBox) ==
    IF targetBox = Null THEN TRUE
    ELSE COLOR_WEIGHT(newBox.colorCategory) = COLOR_WEIGHT(targetBox.colorCategory)

canStack(newBox, targetBox) ==
    IF targetBox = Null THEN TRUE
    ELSE COLOR_WEIGHT(newBox.colorCategory) <= COLOR_WEIGHT(targetBox.colorCategory)

\* null is modelled by the empty message
NoMessage == << >>

\* mutant of getStackError: the candidate is named in the place of the support
getStackError_NamesCandidateTwice(newBox, targetBox) ==
    IF canStack(newBox, targetBox) THEN NoMessage
    ELSE << "Caixa ", getColorName(newBox),
            " nao pode ser empilhada sobre caixa ", getColorName(newBox), "!" >>

\* mutant of getStackError: no pair of boxes is ever refused
getStackError_NeverRefuses(newBox, targetBox) == NoMessage

getStackError(newBox, targetBox) ==
    IF canStack(newBox, targetBox) THEN NoMessage
    ELSE << "Caixa ", getColorName(newBox),
            " nao pode ser empilhada sobre caixa ", getColorName(targetBox), "!" >>

RECURSIVE SumHeights(_)
SumHeights(stackedBoxes) ==
    IF stackedBoxes = << >> THEN 0
    ELSE Head(stackedBoxes).height + SumHeights(Tail(stackedBoxes))

\* mutant of getStackY: the box centre put at the top of the stack
getStackY_NoHalfHeight(newBox, stackedBoxes, baseY) ==
    baseY + SumHeights(stackedBoxes)

getStackY(newBox, stackedBoxes, baseY) ==
    baseY + SumHeights(stackedBoxes) + newBox.height \div 2

\* mutant of getTopBox: the box at the bottom of the stack
getTopBox_Bottom(stackedBoxes) ==
    IF Len(stackedBoxes) = 0 THEN Null
    ELSE stackedBoxes[1]

getTopBox(stackedBoxes) ==
    IF Len(stackedBoxes) = 0 THEN Null
    ELSE stackedBoxes[Len(stackedBoxes)]

(***************************************************************************)
(* Results of the operations.  Ok/Fail are the {success, message} objects  *)
(* of placeBox; Returned is the result of an operation that returns no     *)
(* such object (placePallet, generateNewBox, cycleStack, reset, preview).  *)
(***************************************************************************)
Ok(msg) == [success |-> TRUE, message |-> msg]

Fail(msg) == [success |-> FALSE, message |-> msg]

Returned == [success |-> TRUE, message |-> NoMessage]

(***************************************************************************)
(* js/cubagem.js: CubagemModule, the pallet engine (3 x 2 grid of columns) *)
(***************************************************************************)
PALLET_BASE_Y == 10

CubagemModuleNew ==
    [ kind |-> "pallet",
      palletGroup |-> Null,
      palletPlaced |-> FALSE,
      stacks |-> << >>,
      currentBox |-> Null,
      previewMesh |-> FALSE,          \* previewMesh = currentBox.mesh, else null
      boxCount |-> 0,
      active |-> FALSE,
      selectedStackIndex |-> 0 ]

\* _getStackPositions(): 3 x 2 grid, spacing 0.38 x 0.42, index i = r*cols + c
Cub_getStackPositions ==
    LET cols == 3
        rows == 2
        spacingX == 76
        spacingZ == 84
        offsetX == 0 - ((cols - 1) * spacingX) \div 2
        offsetZ == 0 - ((rows - 1) * spacingZ) \div 2
    IN  [ i \in 1..(rows * cols) |->
            [ x |-> offsetX + ((i - 1) % cols) * spacingX,
              z |-> offsetZ + ((i - 1) \div cols) * spacingZ ] ]

\* _removePreview(): detaches the preview mesh from its parent
Cub_removePreview(m) ==
    IF m.previewMesh
    THEN [m EXCEPT !.currentBox = [m.currentBox EXCEPT !.parent = FALSE],
                   !.previewMesh = FALSE]
    ELSE m

Cub_activate(m) == [m EXCEPT !.active = TRUE]

\* mutant of deactivate: the engine stays marked active
Cub_deactivate_StaysActive(m) == Cub_removePreview(m)

Cub_deactivate(m) == Cub_removePreview([m EXCEPT !.active = FALSE])

Cub_placePallet(m, position) ==
    IF m.palletPlaced THEN m
    ELSE [m EXCEPT !.palletGroup = [position |-> position],
                   !.stacks = m.stacks \o [i \in 1..Len(Cub_getStackPositions) |-> << >>],
                   !.palletPlaced = TRUE]

\* mutant of _showPreviewAtStack: a refusing support is marked as well
Cub_showPreviewAtStack_MarksSupport(m, stackIndex) ==
    IF m.currentBox = Null \/ ~m.palletPlaced THEN m
    ELSE LET m1 == Cub_removePreview(m)
             positions == Cub_getStackPositions
         IN  IF stackIndex >= Len(positions) THEN m1
             ELSE LET pos == positions[stackIndex + 1]
                      stack == m1.stacks[stackIndex + 1]
                      yPos == getStackY(m1.currentBox, stack, PALLET_BASE_Y)
                      topBox == getTopBox(stack)
                      refused == ~canStack(m1.currentBox, topBox)
                      moved == [setPosition(m1.currentBox, pos.x, yPos, pos.z)
                                    EXCEPT !.parent = TRUE]
                  IN  [m1 EXCEPT !.previewMesh = TRUE,
                                 !.currentBox = setErrorHighlight(moved, refused),
                                 !.stacks[stackIndex + 1] =
                                     IF refused
                                     THEN [stack EXCEPT ![Len(stack)] =
                                               setErrorHighlight(@, TRUE)]
                                     ELSE stack]

Cub_showPreviewAtStack(m, stackIndex) ==
    IF m.currentBox = Null \/ ~m.palletPlaced THEN m
    ELSE LET m1 == Cub_removePreview(m)
             positions == Cub_getStackPositions
         IN  IF stackIndex >= Len(positions) THEN m1
             ELSE LET pos == positions[stackIndex + 1]
                      stack == m1.stacks[stackIndex + 1]
                      yPos == getStackY(m1.currentBox, stack, PALLET_BASE_Y)
                      topBox == getTopBox(stack)
                      moved == [setPosition(m1.currentBox, pos.x, yPos, pos.z)
                                    EXCEPT !.parent = TRUE]
                  IN  [m1 EXCEPT !.previewMesh = TRUE,
                                 !.currentBox =
                                     setErrorHighlight(moved, ~canStack(m1.currentBox, topBox))]

\* mutant of generateNewBox: the box in hand is committed to the selected column
Cub_generateNewBox_CommitsOld(m, dims) ==
    LET m0 == IF m.currentBox # Null /\ m.palletPlaced
              THEN [m EXCEPT !.stacks[m.selectedStackIndex + 1] = Append(@, m.currentBox)]
              ELSE m
        m1 == Cub_removePreview(m0)
        m2 == [m1 EXCEPT !.currentBox = setPreviewMode(NewBox(dims), TRUE)]
    IN  IF m2.palletPlaced THEN Cub_showPreviewAtStack(m2, m2.selectedStackIndex)
        ELSE m2

\* mutant of generateNewBox: the selection goes back to the first column
Cub_generateNewBox_FirstColumn(m, dims) ==
    LET m1 == Cub_removePreview(m)
        m2 == [m1 EXCEPT !.currentBox = setPreviewMode(NewBox(dims), TRUE),
                         !.selectedStackIndex = 0]
    IN  IF m2.palletPlaced THEN Cub_showPreviewAtStack(m2, m2.selectedStackIndex)
        ELSE m2

Cub_generateNewBox(m, dims) ==
    LET m1 == Cub_removePreview(m)
        m2 == [m1 EXCEPT !.currentBox = setPreviewMode(NewBox(dims), TRUE)]
    IN  IF m2.palletPlaced THEN Cub_showPreviewAtStack(m2, m2.selectedStackIndex)
        ELSE m2

\* returns the module; the value returned to the caller is its selectedStackIndex
\* mutant of cycleStack: the pending box stays over the column it was over
Cub_cycleStack_KeepsPreview(m) ==
    IF ~m.palletPlaced THEN m
    ELSE [m EXCEPT !.selectedStackIndex = (m.selectedStackIndex + 1) % Len(m.stacks)]

Cub_cycleStack(m) ==
    IF ~m.palletPlaced THEN m
    ELSE LET total == Len(m.stacks)
             m1 == [m EXCEPT !.selectedStackIndex = (m.selectedStackIndex + 1) % total]
         IN  IF m1.currentBox # Null
             THEN Cub_showPreviewAtStack(m1, m1.selectedStackIndex)
             ELSE m1

\* mutant of Cub_placeBox: a box refused by the stacking rule is dropped
Cub_placeBox_DropsRefused(m) ==
    IF m.currentBox = Null \/ ~m.palletPlaced
    THEN [m |-> m, r |-> Fail(<< "Gere uma caixa primeiro!" >>)]
    ELSE LET stack == m.stacks[m.selectedStackIndex + 1]
             topBox == getTopBox(stack)
             error == getStackError(m.currentBox, topBox)
         IN  IF error # NoMessage
             THEN [m |-> [m EXCEPT !.currentBox = Null, !.previewMesh = FALSE],
                   r |-> Fail(error)]
             ELSE LET pos == Cub_getStackPositions[m.selectedStackIndex + 1]
                      yPos == getStackY(m.currentBox, stack, PALLET_BASE_Y)
                      b1 == setErrorHighlight(setPreviewMode(m.currentBox, FALSE), FALSE)
                      b2 == [setPosition(b1, pos.x, yPos, pos.z) EXCEPT !.parent = TRUE]
                      m1 == [m EXCEPT !.stacks[m.selectedStackIndex + 1] = Append(stack, b2),
                                      !.boxCount = m.boxCount + 1,
                                      !.currentBox = Null,
                                      !.previewMesh = FALSE]
                  IN  [m |-> m1,
                       r |-> Ok(<< "Caixa empilhada! (Coluna ",
                                   ToString(m1.selectedStackIndex + 1),
                                   ", Total: ", ToString(m1.boxCount), ")" >>)]

Cub_placeBox(m) ==
    IF m.currentBox = Null \/ ~m.palletPlaced
    THEN [m |-> m, r |-> Fail(<< "Gere uma caixa primeiro!" >>)]
    ELSE LET stack == m.stacks[m.selectedStackIndex + 1]
             topBox == getTopBox(stack)
             error == getStackError(m.currentBox, topBox)
         IN  IF error # NoMessage
             THEN [m |-> m, r |-> Fail(error)]
             ELSE LET pos == Cub_getStackPositions[m.selectedStackIndex + 1]
                      yPos == getStackY(m.currentBox, stack, PALLET_BASE_Y)
                      b1 == setErrorHighlight(setPreviewMode(m.currentBox, FALSE), FALSE)
                      b2 == [setPosition(b1, pos.x, yPos, pos.z) EXCEPT !.parent = TRUE]
                      m1 == [m EXCEPT !.stacks[m.selectedStackIndex + 1] = Append(stack, b2),
                                      !.boxCount = m.boxCount + 1,
                                      !.currentBox = Null,
                                      !.previewMesh = FALSE]
                  IN  [m |-> m1,
                       r |-> Ok(<< "Caixa empilhada! (Coluna ",
                                   ToString(m1.selectedStackIndex + 1),
                                   ", Total: ", ToString(m1.boxCount), ")" >>)]

\* mutant of reset: the count of the boxes survives the reset
Cub_reset_KeepsCount(m) ==
    [m EXCEPT !.palletGroup = Null,
              !.palletPlaced = FALSE,
              !.stacks = << >>,
              !.currentBox = Null,
              !.previewMesh = FALSE,
              !.selectedStackIndex = 0]

Cub_reset(m) ==
    [m EXCEPT !.palletGroup = Null,
              !.palletPlaced = FALSE,
              !.stacks = << >>,
              !.currentBox = Null,
              !.previewMesh = FALSE,
              !.boxCount = 0,
              !.selectedStackIndex = 0]

(***************************************************************************)
(* js/picking.js: PickingModule, the truck engine with a 4 x 2 grid of     *)
(* columns                                                                 *)
(***************************************************************************)
PickingGridNew ==
    [ kind |-> "truckGrid",
      truckGroup |-> Null,
      truckPlaced |-> FALSE,
      stacks |-> << >>,
      stackPositions |-> << >>,
      currentBox |-> Null,
      previewMesh |-> FALSE,
      boxCount |-> 0,
      active |-> FALSE,
      selectedStackIndex |-> 0,
      truckWidth |-> 400,
      truckDepth |-> 240,
      truckHeight |-> 160,
      truckWallThickness |-> 6 ]

Grid_removePreview(m) ==
    IF m.previewMesh
    THEN [m EXCEPT !.currentBox = [m.currentBox EXCEPT !.parent = FALSE],
                   !.previewMesh = FALSE]
    ELSE m

Grid_activate(m) == [m EXCEPT !.active = TRUE]

Grid_deactivate(m) == Grid_removePreview([m EXCEPT !.active = FALSE])

\* _initStackPositions(): 4 x 2 grid, one empty stack pushed per position
Grid_initStackPositions(m) ==
    LET cols == 4
        rows == 2
        spacingX == m.truckWidth \div (cols + 1)
        spacingZ == m.truckDepth \div (rows + 1)
        offsetX == 0 - m.truckWidth \div 2 + spacingX
        offsetZ == 0 - m.truckDepth \div 2 + spacingZ
    IN  [m EXCEPT !.stackPositions =
                      [ i \in 1..(rows * cols) |->
                          [ x |-> offsetX + ((i - 1) % cols) * spacingX,
                            z |-> offsetZ + ((i - 1) \div cols) * spacingZ ] ],
                  !.stacks = m.stacks \o [i \in 1..(rows * cols) |-> << >>]]

\* mutant of placeTruck: a placed truck is placed again
Grid_placeTruck_PlacesAgain(m, position) ==
    [Grid_initStackPositions([m EXCEPT !.truckGroup = [position |-> position]])
         EXCEPT !.truckPlaced = TRUE]

Grid_placeTruck(m, position) ==
    IF m.truckPlaced THEN m
    ELSE [Grid_initStackPositions([m EXCEPT !.truckGroup = [position |-> position]])
              EXCEPT !.truckPlaced = TRUE]

\* mutant of _showPreviewAtStack: a box once marked invalid stays marked
Grid_showPreviewAtStack_StickyError(m, stackIndex) ==
    IF m.currentBox = Null \/ ~m.truckPlaced THEN m
    ELSE LET m1 == Grid_removePreview(m)
         IN  IF stackIndex >= Len(m1.stackPositions) THEN m1
             ELSE LET pos == m1.stackPositions[stackIndex + 1]
                      stack == m1.stacks[stackIndex + 1]
                      yPos == getStackY(m1.currentBox, stack, m1.truckWallThickness)
                      moved == [setPosition(m1.currentBox, pos.x, yPos, pos.z)
                                    EXCEPT !.parent = TRUE]
                      topBox == getTopBox(stack)
                      exceedsHeight == (yPos + m1.currentBox.height \div 2) > m1.truckHeight
                  IN  [m1 EXCEPT !.previewMesh = TRUE,
                                 !.currentBox =
                                     setErrorHighlight(moved,
                                         \/ ~canStack(m1.currentBox, topBox)
                                         \/ exceedsHeight
                                         \/ m1.currentBox.highlight = "error")]

Grid_showPreviewAtStack(m, stackIndex) ==
    IF m.currentBox = Null \/ ~m.truckPlaced THEN m
    ELSE LET m1 == Grid_removePreview(m)
         IN  IF stackIndex >= Len(m1.stackPositions) THEN m1
             ELSE LET pos == m1.stackPositions[stackIndex + 1]
                      stack == m1.stacks[stackIndex + 1]
                      yPos == getStackY(m1.currentBox, stack, m1.truckWallThickness)
                      moved == [setPosition(m1.currentBox, pos.x, yPos, pos.z)
                                    EXCEPT !.parent = TRUE]
                      topBox == getTopBox(stack)
                      exceedsHeight == (yPos + m1.currentBox.height \div 2) > m1.truckHeight
                  IN  [m1 EXCEPT !.previewMesh = TRUE,
                                 !.currentBox =
                                     setErrorHighlight(moved,
                                         ~canStack(m1.currentBox, topBox) \/ exceedsHeight)]

Grid_generateNewBox(m, dims) ==
    LET m1 == Grid_removePreview(m)
        m2 == [m1 EXCEPT !.currentBox = setPreviewMode(NewBox(dims), TRUE)]
    IN  IF m2.truckPlaced THEN Grid_showPreviewAtStack(m2, m2.selectedStackIndex)
        ELSE m2

Grid_cycleStack(m) ==
    IF ~m.truckPlaced THEN m
    ELSE LET total == Len(m.stacks)
             m1 == [m EXCEPT !.selectedStackIndex = (m.selectedStackIndex + 1) % total]
         IN  IF m1.currentBox # Null
             THEN Grid_showPreviewAtStack(m1, m1.selectedStackIndex)
             ELSE m1

Grid_placeBox(m) ==
    IF m.currentBox = Null \/ ~m.truckPlaced
    THEN [m |-> m, r |-> Fail(<< "Gere uma caixa primeiro!" >>)]
    ELSE LET stack == m.stacks[m.selectedStackIndex + 1]
             topBox == getTopBox(stack)
             colorError == getStackError(m.currentBox, topBox)
             yPos == getStackY(m.currentBox, stack, m.truckWallThickness)
         IN  IF colorError # NoMessage
             THEN [m |-> m, r |-> Fail(colorError)]
             ELSE IF (yPos + m.currentBox.height \div 2) > m.truckHeight
             THEN [m |-> m,
                   r |-> Fail(<< "Caixa excede a altura da cacamba! Escolha outra coluna." >>)]
             ELSE LET pos == m.stackPositions[m.selectedStackIndex + 1]
                      b1 == setErrorHighlight(setPreviewMode(m.currentBox, FALSE), FALSE)
                      b2 == [setPosition(b1, pos.x, yPos, pos.z) EXCEPT !.parent = TRUE]
                      m1 == [m EXCEPT !.stacks[m.selectedStackIndex + 1] = Append(stack, b2),
                                      !.boxCount = m.boxCount + 1,
                                      !.currentBox = Null,
                                      !.previewMesh = FALSE]
                  IN  [m |-> m1,
                       r |-> Ok(<< "Caixa carregada! (Posicao ",
                                   ToString(m1.selectedStackIndex + 1),
                                   ", Total: ", ToString(m1.boxCount), ")" >>)]

\* mutant of reset: the columns are emptied but stay in the list
Grid_reset_KeepsColumns(m) ==
    [m EXCEPT !.truckGroup = Null,
              !.truckPlaced = FALSE,
              !.stacks = [c \in 1..Len(m.stacks) |-> << >>],
              !.stackPositions = << >>,
              !.currentBox = Null,
              !.previewMesh = FALSE,
              !.boxCount = 0,
              !.selectedStackIndex = 0]

Grid_reset(m) ==
    [m EXCEPT !.truckGroup = Null,
              !.truckPlaced = FALSE,
              !.stacks = << >>,
              !.stackPositions = << >>,
              !.currentBox = Null,
              !.previewMesh = FALSE,
              !.boxCount = 0,
              !.selectedStackIndex = 0]

(***************************************************************************)
(* js/cubagem.js 319-511: PickingModule, the truck engine with an open     *)
(* footprint (a box rests wherever the anchor points, on what is below)    *)
(***************************************************************************)
PickingOpenNew ==
    [ kind |-> "truckOpen",
      truckGroup |-> Null,
      truckPlaced |-> FALSE,
      placedBoxes |-> << >>,
      currentBox |-> Null,
      previewValid |-> FALSE,
      boxCount |-> 0,
      active |-> FALSE,
      innerHalfX |-> 190,
      innerHalfZ |-> 110,
      floorY |-> 6,
      maxHeight |-> 160 ]

Max(a, b) == IF a >= b THEN a ELSE b

Min(a, b) == IF a <= b THEN a ELSE b

Abs(a) == IF a >= 0 THEN a ELSE 0 - a

Open_activate(m) == [m EXCEPT !.active = TRUE]

Open_deactivate(m) == [m EXCEPT !.active = FALSE]

Open_placeTruck(m, position) ==
    IF m.truckPlaced THEN m
    ELSE [m EXCEPT !.truckGroup = [position |-> position],
                   !.truckPlaced = TRUE]

\* _removeCurrentBox(): detaches the pending box's mesh and forgets the box
Open_removeCurrentBox(m) == [m EXCEPT !.currentBox = Null]

Open_generateNewBox(m, dims) ==
    [Open_removeCurrentBox(m) EXCEPT !.currentBox = setPreviewMode(NewBox(dims), TRUE),
                                     !.previewValid = FALSE]

\* the loop of _findTopAt over placedBoxes[i..], carrying topBox and topSurface
\* mutant of the loop of _findTopAt: boxes that touch edge to edge overlap
RECURSIVE Open_findTopLoop_TouchingOverlaps(_, _, _, _, _, _, _)
Open_findTopLoop_TouchingOverlaps(placedBoxes, i, x, z, newBox, topBox, topSurface) ==
    IF i > Len(placedBoxes) THEN [topBox |-> topBox, topSurface |-> topSurface]
    ELSE LET box == placedBoxes[i]
             dx == Abs(box.x - x)
             dz == Abs(box.z - z)
             overlapX == (box.width + newBox.width) \div 2
             overlapZ == (box.depth + newBox.depth) \div 2
             boxTop == box.y + box.height \div 2
         IN  IF dx <= overlapX /\ dz <= overlapZ /\ boxTop > topSurface
             THEN Open_findTopLoop_TouchingOverlaps(placedBoxes, i + 1, x, z, newBox, box, boxTop)
             ELSE Open_findTopLoop_TouchingOverlaps(placedBoxes, i + 1, x, z, newBox, topBox, topSurface)

RECURSIVE Open_findTopLoop(_, _, _, _, _, _, _)
Open_findTopLoop(placedBoxes, i, x, z, newBox, topBox, topSurface) ==
    IF i > Len(placedBoxes) THEN [topBox |-> topBox, topSurface |-> topSurface]
    ELSE LET box == placedBoxes[i]
             dx == Abs(box.x - x)
             dz == Abs(box.z - z)
             overlapX == (box.width + newBox.width) \div 2
             overlapZ == (box.depth + newBox.depth) \div 2
             boxTop == box.y + box.height \div 2
         IN  IF dx < overlapX /\ dz < overlapZ /\ boxTop > topSurface
             THEN Open_findTopLoop(placedBoxes, i + 1, x, z, newBox, box, boxTop)
             ELSE Open_findTopLoop(placedBoxes, i + 1, x, z, newBox, topBox, topSurface)

\* mutant of _findTopAt: the candidate rests a whole height above the surface
Open_findTopAt_WholeHeight(m, x, z, newBox) ==
    LET found == Open_findTopLoop(m.placedBoxes, 1, x, z, newBox, Null, m.floorY)
    IN  [topBox |-> found.topBox, stackY |-> found.topSurface + newBox.height]

\* mutant of _findTopAt: the candidate always rests on the floor
Open_findTopAt_AlwaysFloor(m, x, z, newBox) ==
    LET found == Open_findTopLoop(m.placedBoxes, 1, x, z, newBox, Null, m.floorY)
    IN  [topBox |-> found.topBox, stackY |-> m.floorY + newBox.height \div 2]

Open_findTopAt(m, x, z, newBox) ==
    LET found == Open_findTopLoop(m.placedBoxes, 1, x, z, newBox, Null, m.floorY)
    IN  [topBox |-> found.topBox, stackY |-> found.topSurface + newBox.height \div 2]

\* mutant of _updatePreview: the height of the truck is not checked
Open_updatePreview_IgnoresHeight(m, localX, localZ) ==
    LET box == m.currentBox
        hw == box.width \div 2
        hd == box.depth \div 2
        x == Max(0 - m.innerHalfX + hw, Min(m.innerHalfX - hw, localX))
        z == Max(0 - m.innerHalfZ + hd, Min(m.innerHalfZ - hd, localZ))
        top == Open_findTopAt(m, x, z, box)
        valid == canStack(box, top.topBox)
        moved == [setPosition(box, x, top.stackY, z) EXCEPT !.parent = TRUE]
    IN  [m EXCEPT !.previewValid = valid,
                  !.currentBox = setErrorHighlight(moved, ~valid)]

\* mutant of _updatePreview: the centre is clamped to the bounds, not the footprint
Open_updatePreview_ClampsCentre(m, localX, localZ) ==
    LET box == m.currentBox
        x == Max(0 - m.innerHalfX, Min(m.innerHalfX, localX))
        z == Max(0 - m.innerHalfZ, Min(m.innerHalfZ, localZ))
        top == Open_findTopAt(m, x, z, box)
        boxTop == top.stackY + box.height \div 2
        exceedsHeight == boxTop > m.maxHeight
        colorOk == canStack(box, top.topBox)
        valid == colorOk /\ ~exceedsHeight
        moved == [setPosition(box, x, top.stackY, z) EXCEPT !.parent = TRUE]
    IN  [m EXCEPT !.previewValid = valid,
                  !.currentBox = setErrorHighlight(moved, ~valid)]

\* mutant of _updatePreview: the stacking rule is asked the wrong way round
Open_updatePreview_RuleReversed(m, localX, localZ) ==
    LET box == m.currentBox
        hw == box.width \div 2
        hd == box.depth \div 2
        x == Max(0 - m.innerHalfX + hw, Min(m.innerHalfX - hw, localX))
        z == Max(0 - m.innerHalfZ + hd, Min(m.innerHalfZ - hd, localZ))
        top == Open_findTopAt(m, x, z, box)
        boxTop == top.stackY + box.height \div 2
        exceedsHeight == boxTop > m.maxHeight
        colorOk == top.topBox = Null \/ canStack(top.topBox, box)
        valid == colorOk /\ ~exceedsHeight
        moved == [setPosition(box, x, top.stackY, z) EXCEPT !.parent = TRUE]
    IN  [m EXCEPT !.previewValid = valid,
                  !.currentBox = setErrorHighlight(moved, ~valid)]

Open_updatePreview(m, localX, localZ) ==
    LET box == m.currentBox
        hw == box.width \div 2
        hd == box.depth \div 2
        x == Max(0 - m.innerHalfX + hw, Min(m.innerHalfX - hw, localX))
        z == Max(0 - m.innerHalfZ + hd, Min(m.innerHalfZ - hd, localZ))
        top == Open_findTopAt(m, x, z, box)
        boxTop == top.stackY + box.height \div 2
        exceedsHeight == boxTop > m.maxHeight
        colorOk == canStack(box, top.topBox)
        valid == colorOk /\ ~exceedsHeight
        moved == [setPosition(box, x, top.stackY, z) EXCEPT !.parent = TRUE]
    IN  [m EXCEPT !.previewValid = valid,
                  !.currentBox = setErrorHighlight(moved, ~valid)]

\* worldToLocal of the truck group: the group is only translated
\* mutant of updatePreviewFromWorld: without a truck the world position is used
Open_updatePreviewFromWorld_WithoutTruck(m, worldPos) ==
    IF m.currentBox = Null THEN m
    ELSE IF ~m.truckPlaced THEN Open_updatePreview(m, worldPos.x, worldPos.z)
    ELSE Open_updatePreview(m, worldPos.x - m.truckGroup.position.x,
                               worldPos.z - m.truckGroup.position.z)

Open_updatePreviewFromWorld(m, worldPos) ==
    IF m.currentBox = Null \/ ~m.truckPlaced THEN m
    ELSE Open_updatePreview(m, worldPos.x - m.truckGroup.position.x,
                               worldPos.z - m.truckGroup.position.z)

Open_placeBox(m) ==
    IF m.currentBox = Null \/ ~m.truckPlaced
    THEN [m |-> m, r |-> Fail(<< "Gere uma caixa primeiro!" >>)]
    ELSE IF ~m.previewValid
    THEN LET pos == m.currentBox
             top == Open_findTopAt(m, pos.x, pos.z, m.currentBox)
             colorError == getStackError(m.currentBox, top.topBox)
             exceedsHeight == (pos.y + m.currentBox.height \div 2) > m.maxHeight
         IN  IF exceedsHeight
             THEN [m |-> m, r |-> Fail(<< "Caixa excede a altura da cacamba!" >>)]
             ELSE [m |-> m,
                   r |-> Fail(IF colorError # NoMessage THEN colorError
                              ELSE << "Posicionamento invalido!" >>)]
    ELSE LET b1 == setErrorHighlight(setPreviewMode(m.currentBox, FALSE), FALSE)
             m1 == [m EXCEPT !.placedBoxes = Append(m.placedBoxes, b1),
                             !.boxCount = m.boxCount + 1,
                             !.currentBox = Null]
         IN  [m |-> m1,
              r |-> Ok(<< "Caixa carregada! (Total: ", ToString(m1.boxCount), ")" >>)]

\* mutant of reset: the pending box survives
Open_reset_KeepsPending(m) ==
    [m EXCEPT !.truckGroup = Null,
              !.truckPlaced = FALSE,
              !.placedBoxes = << >>,
              !.boxCount = 0,
              !.previewValid = FALSE]

Open_reset(m) ==
    [Open_removeCurrentBox(m) EXCEPT !.truckGroup = Null,
                                     !.truckPlaced = FALSE,
                                     !.placedBoxes = << >>,
                                     !.boxCount = 0,
                                     !.previewValid = FALSE]

(***************************************************************************)
(* removeBox and getAllMeshes.  js/app.js calls module.removeBox(mesh) and *)
(* module.getAllMeshes(); neither engine class of the sources defines      *)
(* them, so they follow the description of `remove`: legal only with no    *)
(* pending box, refused when another committed box overlaps the target's   *)
(* footprint at a strictly higher elevation, else the target leaves the    *)
(* committed set and the count drops by one.  A committed box is named by  *)
(* its place: [i] in placedBoxes, or [c, l] = column and level in stacks.  *)
(***************************************************************************)
getAllMeshes(m) ==
    IF m.kind = "truckOpen"
    THEN { [i |-> i] : i \in 1..Len(m.placedBoxes) }
    ELSE UNION { { [c |-> c, l |-> l] : l \in 1..Len(m.stacks[c]) } : c \in 1..Len(m.stacks) }

BoxAt(m, ref) ==
    IF m.kind = "truckOpen" THEN m.placedBoxes[ref.i] ELSE m.stacks[ref.c][ref.l]

\* strict overlap of the two footprints (width x depth rectangles around x, z)
FootprintsOverlap(a, b) ==
    /\ Abs(a.x - b.x) < (a.width + b.width) \div 2
    /\ Abs(a.z - b.z) < (a.depth + b.depth) \div 2

\* mutant of HasBoxAbove: any higher box blocks, whatever its footprint
HasBoxAbove_IgnoresFootprint(m, ref) ==
    \E other \in getAllMeshes(m) \ {ref} :
        BoxAt(m, other).y > BoxAt(m, ref).y

HasBoxAbove(m, ref) ==
    \E other \in getAllMeshes(m) \ {ref} :
        /\ FootprintsOverlap(BoxAt(m, other), BoxAt(m, ref))
        /\ BoxAt(m, other).y > BoxAt(m, ref).y

RemoveAt(seq, k) == SubSeq(seq, 1, k - 1) \o SubSeq(seq, k + 1, Len(seq))

removeBox(m, ref) ==
    IF m.currentBox # Null
    THEN [m |-> m, r |-> Fail(<< "Place or discard the pending box first" >>)]
    ELSE IF ref \notin getAllMeshes(m)
    THEN [m |-> m, r |-> Fail(<< "Box is not placed" >>)]
    ELSE IF HasBoxAbove(m, ref)
    THEN [m |-> m, r |-> Fail(<< "Remove the box(es) above it first" >>)]
    ELSE LET m1 == IF m.kind = "truckOpen"
                   THEN [m EXCEPT !.placedBoxes = RemoveAt(m.placedBoxes, ref.i)]
                   ELSE [m EXCEPT !.stacks[ref.c] = RemoveAt(m.stacks[ref.c], ref.l)]
         IN  [m |-> [m1 EXCEPT !.boxCount = m.boxCount - 1],
              r |-> Ok(<< "Box removed" >>)]

(***************************************************************************)
(* The engine interface the controller uses, by class of engine.           *)
(***************************************************************************)
isContainerPlacedOf(m) ==
    IF m.kind = "pallet" THEN m.palletPlaced ELSE m.truckPlaced

getBoxCount(m) == m.boxCount

placeContainer(m, position) ==
    CASE m.kind = "pallet"    -> Cub_placePallet(m, position)
      [] m.kind = "truckGrid" -> Grid_placeTruck(m, position)
      [] m.kind = "truckOpen" -> Open_placeTruck(m, position)

generateNewBox(m, dims) ==
    CASE m.kind = "pallet"    -> Cub_generateNewBox(m, dims)
      [] m.kind = "truckGrid" -> Grid_generateNewBox(m, dims)
      [] m.kind = "truckOpen" -> Open_generateNewBox(m, dims)

placeBox(m) ==
    CASE m.kind = "pallet"    -> Cub_placeBox(m)
      [] m.kind = "truckGrid" -> Grid_placeBox(m)
      [] m.kind = "truckOpen" -> Open_placeBox(m)

cycleStack(m) ==
    CASE m.kind = "pallet"    -> Cub_cycleStack(m)
      [] m.kind = "truckGrid" -> Grid_cycleStack(m)

reset(m) ==
    CASE m.kind = "pallet"    -> Cub_reset(m)
      [] m.kind = "truckGrid" -> Grid_reset(m)
      [] m.kind = "truckOpen" -> Open_reset(m)

activate(m) ==
    CASE m.kind = "pallet"    -> Cub_activate(m)
      [] m.kind = "truckGrid" -> Grid_activate(m)
      [] m.kind = "truckOpen" -> Open_activate(m)

deactivate(m) ==
    CASE m.kind = "pallet"    -> Cub_deactivate(m)
      [] m.kind = "truckGrid" -> Grid_deactivate(m)
      [] m.kind = "truckOpen" -> Open_deactivate(m)

(***************************************************************************)
(* js/app.js helpers                                                       *)
(***************************************************************************)
getActiveModule == IF currentMode = "cubagem" THEN cubagemModule ELSE pickingModule

isContainerPlaced ==
    IF currentMode = "cubagem" THEN cubagemModule.palletPlaced
    ELSE pickingModule.truckPlaced

\* the active module becomes m, the other module is left alone
\* mutant of the write through getActiveModule(): the other module is reset
SetActiveModule_ResetsOther(m) ==
    IF currentMode = "cubagem"
    THEN cubagemModule' = m /\ pickingModule' = reset(pickingModule)
    ELSE pickingModule' = m /\ cubagemModule' = reset(cubagemModule)

SetActiveModule(m) ==
    IF currentMode = "cubagem"
    THEN cubagemModule' = m /\ UNCHANGED pickingModule
    ELSE pickingModule' = m /\ UNCHANGED cubagemModule

(***************************************************************************)
(* Inputs                                                                  *)
(***************************************************************************)
\* positions the hit test reports for the container (world x, z)
ContainerPositions == { [x |-> 0, z |-> 0], [x |-> 30, z |-> 0] }

\* positions the hit test reports while a box is previewed (world x, z):
\* same centre, partial overlap, edge to edge, and far outside the truck
AnchorPositions ==
    { [x |-> 0, z |-> 0], [x |-> 30, z |-> 0], [x |-> 60, z |-> 0],
      [x |-> 400, z |-> 400] }

NoResult == [op |-> "none", success |-> TRUE, message |-> NoMessage]

Result(op, r) == [op |-> op, success |-> r.success, message |-> r.message]

(***************************************************************************)
(* Spec: the engine classes driven directly, one method call per step, on  *)
(* the engine that currentMode selects (the pallet engine, or either of    *)
(* the two truck engines).                                                 *)
(***************************************************************************)
Init ==
    /\ cubagemModule = CubagemModuleNew
    /\ pickingModule \in {PickingGridNew, PickingOpenNew}
    /\ currentMode \in {"cubagem", "picking"}
    /\ hitPose = Null
    /\ removalCandidate = Null
    /\ lastResult = NoResult

PlaceContainer ==
    \E position \in ContainerPositions :
        /\ SetActiveModule(placeContainer(getActiveModule, position))
        /\ lastResult' = Result("placeContainer", Returned)
        /\ UNCHANGED <<currentMode, hitPose, removalCandidate>>

GenerateNewBox ==
    \E dims \in BoxDims :
        /\ SetActiveModule(generateNewBox(getActiveModule, dims))
        /\ lastResult' = Result("generateNewBox", Returned)
        /\ UNCHANGED <<currentMode, hitPose, removalCandidate>>

UpdatePreviewFromWorld ==
    /\ getActiveModule.kind = "truckOpen"
    /\ \E worldPos \in AnchorPositions :
        /\ SetActiveModule(Open_updatePreviewFromWorld(getActiveModule, worldPos))
        /\ lastResult' = Result("preview", Returned)
        /\ UNCHANGED <<currentMode, hitPose, removalCandidate>>

CycleStack ==
    /\ getActiveModule.kind \in {"pallet", "truckGrid"}
    /\ SetActiveModule(cycleStack(getActiveModule))
    /\ lastResult' = Result("cycleStack", Returned)
    /\ UNCHANGED <<currentMode, hitPose, removalCandidate>>

PlaceBox ==
    LET res == placeBox(getActiveModule)
    IN  /\ res.r.success => getActiveModule.boxCount < MaxBoxes
        /\ SetActiveModule(res.m)
        /\ lastResult' = Result("placeBox", res.r)
        /\ UNCHANGED <<currentMode, hitPose, removalCandidate>>

RemoveBox ==
    \E ref \in getAllMeshes(getActiveModule) :
        LET res == removeBox(getActiveModule, ref)
        IN  /\ SetActiveModule(res.m)
            /\ lastResult' = Result("removeBox", res.r)
            /\ UNCHANGED <<currentMode, hitPose, removalCandidate>>

Reset ==
    /\ SetActiveModule(reset(getActiveModule))
    /\ lastResult' = Result("reset", Returned)
    /\ UNCHANGED <<currentMode, hitPose, removalCandidate>>

Next ==
    \/ PlaceContainer
    \/ GenerateNewBox
    \/ UpdatePreviewFromWorld
    \/ CycleStack
    \/ PlaceBox
    \/ RemoveBox
    \/ Reset

Spec == Init /\ [][Next]_vars

(***************************************************************************)
(* SpecApp: the session controller of js/app.js.  One step is one run of a *)
(* handler: a frame of the XR loop, or a click on a button or the screen.  *)
(* The controller is built with the pallet engine and one of the two truck *)
(* engines; it previews by position on the open-footprint engine           *)
(* (updatePreviewFromWorld) and by column on the grid engines (cycleStack, *)
(* the screen-click handler of the controller's grid version).             *)
(***************************************************************************)
\* what the hit test reports in a frame: nothing, or a world position
HitPoses == { Null, [x |-> 0, z |-> 0] }

\* the dimension triples the controller's Box.createRandom() is driven with
AppBoxDims ==
    { [w |-> 60, h |-> 40, d |-> 60],     \* 0.3 x 0.2 x 0.3, green
      [w |-> 40, h |-> 40, d |-> 40] }    \* 0.2 x 0.2 x 0.2, blue

SetHighlightAt(m, ref, enabled) ==
    IF m.kind = "truckOpen"
    THEN [m EXCEPT !.placedBoxes[ref.i] = setRemovalHighlight(@, enabled)]
    ELSE [m EXCEPT !.stacks[ref.c][ref.l] = setRemovalHighlight(@, enabled)]

\* clearRemovalCandidate(), as its effect on the module that holds the box
clearRemovalCandidate(m) ==
    IF removalCandidate # Null THEN SetHighlightAt(m, removalCandidate, FALSE) ELSE m

\* updateRemovalCandidate(module) when the ray hits hitMesh (Null: nothing)
updateRemovalCandidate(m, hitMesh) ==
    LET dropped == removalCandidate # Null /\ removalCandidate # hitMesh
        m1 == IF dropped THEN SetHighlightAt(m, removalCandidate, FALSE) ELSE m
    IN  [m |-> IF hitMesh # Null THEN SetHighlightAt(m1, hitMesh, TRUE) ELSE m1,
         candidate |-> IF hitMesh # Null THEN hitMesh
                       ELSE IF dropped THEN Null ELSE removalCandidate]

InitApp ==
    /\ cubagemModule = Cub_activate(CubagemModuleNew)
    /\ pickingModule \in {PickingGridNew, PickingOpenNew}
    /\ currentMode = "cubagem"
    /\ hitPose = Null
    /\ removalCandidate = Null
    /\ lastResult = NoResult

OnXRFrame ==
    \E pose \in HitPoses :
        /\ hitPose' = pose
        /\ lastResult' = Result("frame", Returned)
        /\ UNCHANGED currentMode
        /\ LET module == getActiveModule
           IN  IF isContainerPlaced
               THEN IF module.currentBox # Null
                    THEN /\ removalCandidate' = Null
                         /\ SetActiveModule(
                                IF pose # Null /\ module.kind = "truckOpen"
                                THEN Open_updatePreviewFromWorld(
                                         clearRemovalCandidate(module), pose)
                                ELSE clearRemovalCandidate(module))
                    ELSE \E hitMesh \in {Null} \cup getAllMeshes(module) :
                            LET upd == updateRemovalCandidate(module, hitMesh)
                            IN  /\ removalCandidate' = upd.candidate
                                /\ SetActiveModule(upd.m)
               ELSE /\ removalCandidate' = Null
                    /\ SetActiveModule(clearRemovalCandidate(module))

\* mutant of the new-box handler: a box is generated without a container too
BtnNewBox_WithoutContainer ==
    /\ UNCHANGED <<currentMode, hitPose>>
    /\ \E dims \in AppBoxDims :
          /\ removalCandidate' = Null
          /\ SetActiveModule(
                 generateNewBox(clearRemovalCandidate(getActiveModule), dims))
          /\ lastResult' = Result("btnNewBox", Returned)

BtnNewBox ==
    /\ UNCHANGED <<currentMode, hitPose>>
    /\ IF ~isContainerPlaced
       THEN /\ lastResult' = Result("btnNewBox",
                  Fail(<< "Posicione o ",
                          IF currentMode = "cubagem" THEN "palete" ELSE "caminhao",
                          " primeiro!" >>))
            /\ UNCHANGED <<cubagemModule, pickingModule, removalCandidate>>
       ELSE \E dims \in AppBoxDims :
               /\ removalCandidate' = Null
               /\ SetActiveModule(
                      generateNewBox(clearRemovalCandidate(getActiveModule), dims))
               /\ lastResult' = Result("btnNewBox", Returned)

BtnPlace ==
    /\ UNCHANGED <<currentMode, hitPose, removalCandidate>>
    /\ LET module == getActiveModule
       IN  IF ~isContainerPlaced
           THEN IF hitPose = Null
                THEN /\ lastResult' = Result("btnPlace",
                                             Fail(<< "Nenhuma superficie detectada!" >>))
                     /\ UNCHANGED <<cubagemModule, pickingModule>>
                ELSE /\ SetActiveModule(placeContainer(module, hitPose))
                     /\ lastResult' = Result("btnPlace",
                            Ok(IF currentMode = "cubagem"
                               THEN << "Palete posicionado!" >>
                               ELSE << "Cacamba posicionada!" >>))
           ELSE IF module.currentBox = Null
                THEN /\ lastResult' = Result("btnPlace",
                                             Fail(<< "Gere uma nova caixa primeiro!" >>))
                     /\ UNCHANGED <<cubagemModule, pickingModule>>
                ELSE LET res == placeBox(module)
                     IN  /\ res.r.success =>
                                cubagemModule.boxCount + pickingModule.boxCount < MaxBoxes
                         /\ SetActiveModule(res.m)
                         /\ lastResult' = Result("btnPlace", res.r)

\* mutant of the remove handler: the box in hand is not looked at
BtnRemove_IgnoresPending ==
    /\ UNCHANGED <<currentMode, hitPose>>
    /\ LET module == getActiveModule
       IN  IF removalCandidate = Null
           THEN /\ lastResult' = Result("btnRemove",
                      Fail(<< "Aponte para uma caixa para remove-la." >>))
                /\ UNCHANGED <<cubagemModule, pickingModule, removalCandidate>>
           ELSE LET targetMesh == removalCandidate
                    res == removeBox(SetHighlightAt(module, targetMesh, FALSE), targetMesh)
                IN  /\ removalCandidate' = Null
                    /\ SetActiveModule(res.m)
                    /\ lastResult' = Result("btnRemove", res.r)

BtnRemove ==
    /\ UNCHANGED <<currentMode, hitPose>>
    /\ LET module == getActiveModule
       IN  IF module.currentBox # Null
           THEN /\ lastResult' = Result("btnRemove",
                      Fail(<< "Cancele ou posicione a caixa atual antes de remover." >>))
                /\ UNCHANGED <<cubagemModule, pickingModule, removalCandidate>>
           ELSE IF removalCandidate = Null
           THEN /\ lastResult' = Result("btnRemove",
                      Fail(<< "Aponte para uma caixa para remove-la." >>))
                /\ UNCHANGED <<cubagemModule, pickingModule, removalCandidate>>
           ELSE LET targetMesh == removalCandidate
                    res == removeBox(SetHighlightAt(module, targetMesh, FALSE), targetMesh)
                IN  /\ removalCandidate' = Null
                    /\ SetActiveModule(res.m)
                    /\ lastResult' = Result("btnRemove", res.r)

BtnMode ==
    /\ UNCHANGED hitPose
    /\ removalCandidate' = Null
    /\ lastResult' = Result("btnMode", Returned)
    /\ IF currentMode = "cubagem"
       THEN /\ currentMode' = "picking"
            /\ cubagemModule' = deactivate(clearRemovalCandidate(cubagemModule))
            /\ pickingModule' = activate(pickingModule)
       ELSE /\ currentMode' = "cubagem"
            /\ pickingModule' = deactivate(clearRemovalCandidate(pickingModule))
            /\ cubagemModule' = activate(cubagemModule)

BtnReset ==
    /\ UNCHANGED <<currentMode, hitPose>>
    /\ removalCandidate' = Null
    /\ cubagemModule' = reset(cubagemModule)
    /\ pickingModule' = reset(pickingModule)
    /\ lastResult' = Result("btnReset", Ok(<< "Tudo resetado!" >>))

\* click on the screen outside the buttons (grid version of the controller)
DocClick ==
    /\ getActiveModule.kind \in {"pallet", "truckGrid"}
    /\ UNCHANGED <<currentMode, hitPose, removalCandidate>>
    /\ lastResult' = Result("docClick", Returned)
    /\ IF ~isContainerPlaced \/ getActiveModule.currentBox = Null
       THEN UNCHANGED <<cubagemModule, pickingModule>>
       ELSE /\ getActiveModule.selectedStackIndex < MaxColumn
            /\ SetActiveModule(cycleStack(getActiveModule))

NextApp ==
    \/ OnXRFrame
    \/ BtnNewBox
    \/ BtnPlace
    \/ BtnRemove
    \/ BtnMode
    \/ BtnReset
    \/ DocClick

SpecApp == InitApp /\ [][NextApp]_vars

(***************************************************************************)
(* Vocabulary of the properties                                            *)
(***************************************************************************)
\* the committed boxes of an engine, as a set
Committed(m) ==
    IF m.kind = "truckOpen"
    THEN { m.placedBoxes[i] : i \in 1..Len(m.placedBoxes) }
    ELSE UNION { { m.stacks[c][l] : l \in 1..Len(m.stacks[c]) } : c \in 1..Len(m.stacks) }

\* the committed boxes of an engine in the structure that holds them
Store(m) == IF m.kind = "truckOpen" THEN m.placedBoxes ELSE m.stacks

\* the module that is active after the step
ActiveModuleAfter == IF currentMode' = "cubagem" THEN cubagemModule' ELSE pickingModule'

CategoryWeight(category) ==
    CASE category = "red"   -> 3      \* Heavy
      [] category = "green" -> 2      \* Medium
      [] category = "blue"  -> 1      \* Light

\* the floor a column of the grid engines starts from
GridFloor(m) == IF m.kind = "pallet" THEN 10 ELSE 6

GridColumnCentre(m) ==
    IF m.kind = "pallet" THEN Cub_getStackPositions[m.selectedStackIndex + 1]
    ELSE m.stackPositions[m.selectedStackIndex + 1]

\* the support a pending box resolves to: the top of the selected column, or
\* the highest committed box under the pending box's footprint
ResolvedSupport(m) ==
    IF m.kind = "truckOpen"
    THEN Open_findTopAt(m, m.currentBox.x, m.currentBox.z, m.currentBox).topBox
    ELSE getTopBox(m.stacks[m.selectedStackIndex + 1])

\* the elevation of the top face of the pending box once it rests on its support
ResolvedTop(m) ==
    IF m.kind = "truckOpen"
    THEN Open_findTopAt(m, m.currentBox.x, m.currentBox.z, m.currentBox).stackY
             + m.currentBox.height \div 2
    ELSE GridFloor(m) + SumHeights(m.stacks[m.selectedStackIndex + 1])
             + m.currentBox.height

\* what a preview run now, at the pending box's column or position, would say
FreshPreviewValid(m) ==
    CASE m.kind = "pallet" ->
             Cub_showPreviewAtStack(m, m.selectedStackIndex).currentBox.highlight # "error"
      [] m.kind = "truckGrid" ->
             Grid_showPreviewAtStack(m, m.selectedStackIndex).currentBox.highlight # "error"
      [] m.kind = "truckOpen" ->
             Open_updatePreview(m, m.currentBox.x, m.currentBox.z).previewValid

HasPending(m) == m.currentBox # Null

PlaceStep == lastResult'.op = "placeBox"

(***************************************************************************)
(* C1: canStack(candidate, support) is true exactly when there is no       *)
(* support or weight(candidate) <= weight(support), with Heavy (red) = 3,  *)
(* Medium (green) = 2, Light (blue) = 1: for every pair of categories, and *)
(* for the pending box of every reachable state against every committed    *)
(* box.                                                                    *)
(***************************************************************************)
C1_CanStackIsWeightOrder ==
    /\ \A a \in BoxDims :
          /\ canStack(NewBox(a), Null)
          /\ \A b \in BoxDims :
                canStack(NewBox(a), NewBox(b))
                    <=> CategoryWeight(NewBox(a).colorCategory)
                            <= CategoryWeight(NewBox(b).colorCategory)
    /\ HasPending(getActiveModule) =>
          \A s \in Committed(getActiveModule) :
              canStack(getActiveModule.currentBox, s)
                  <=> CategoryWeight(getActiveModule.currentBox.colorCategory)
                          <= CategoryWeight(s.colorCategory)

\* a place was refused because the pending box is heavier than its support
C1_Witness ==
    /\ lastResult.op = "placeBox"
    /\ ~lastResult.success
    /\ HasPending(getActiveModule)
    /\ isContainerPlaced
    /\ ResolvedSupport(getActiveModule) # Null
    /\ ~canStack(getActiveModule.currentBox, ResolvedSupport(getActiveModule))
    /\ { NewBox(d).colorCategory : d \in BoxDims } = {"red", "green", "blue"}

(***************************************************************************)
(* C2: a failed place() never mutates engine state: the committed boxes,   *)
(* every column, the count and the pending box are as before the call;     *)
(* and place() on an engine with no container fails, also right after      *)
(* generateNewBox(), and leaves the committed set empty.                   *)
(***************************************************************************)
C2_FailedPlaceKeepsState ==
    [][ PlaceStep =>
          /\ ~lastResult'.success =>
                /\ cubagemModule' = cubagemModule
                /\ pickingModule' = pickingModule
          /\ ~isContainerPlaced =>
                /\ ~lastResult'.success
                /\ Committed(ActiveModuleAfter) = {}
                /\ ActiveModuleAfter.boxCount = 0 ]_vars

\* generateNewBox() then place() with no container: refused, the box is kept
C2_Witness ==
    /\ lastResult.op = "placeBox"
    /\ ~lastResult.success
    /\ HasPending(getActiveModule)
    /\ ~isContainerPlaced

(***************************************************************************)
(* C3: a successful place() moves the pending box into the committed set   *)
(* at its resolved coordinates (grid: the centre of the selected column,   *)
(* resting on the column; open footprint: where the preview put it), with  *)
(* no highlight and not in preview mode, leaves no pending box, increases  *)
(* the count by exactly 1 and returns a message with the new count (grid:  *)
(* and the 1-based number of the column).                                  *)
(***************************************************************************)
C3_SuccessfulPlaceCommits ==
    [][ (PlaceStep /\ lastResult'.success) =>
          LET m   == getActiveModule
              m2  == ActiveModuleAfter
              b   == m.currentBox
              put == [b EXCEPT !.highlight = "none", !.previewMode = FALSE,
                               !.parent = TRUE]
          IN  /\ HasPending(m)
              /\ ~HasPending(m2)
              /\ m2.boxCount = m.boxCount + 1
              /\ IF m.kind = "truckOpen"
                 THEN /\ m2.placedBoxes = Append(m.placedBoxes, put)
                      /\ lastResult'.message =
                             << "Caixa carregada! (Total: ", ToString(m.boxCount + 1), ")" >>
                 ELSE /\ m2.stacks =
                             [m.stacks EXCEPT ![m.selectedStackIndex + 1] =
                                 Append(@, [put EXCEPT
                                     !.x = GridColumnCentre(m).x,
                                     !.z = GridColumnCentre(m).z,
                                     !.y = GridFloor(m)
                                             + SumHeights(m.stacks[m.selectedStackIndex + 1])
                                             + b.height \div 2])]
                      /\ Len(lastResult'.message) = 5
                      /\ lastResult'.message[2] = ToString(m.selectedStackIndex + 1)
                      /\ lastResult'.message[4] = ToString(m.boxCount + 1) ]_vars

\* a second box was placed, on top of a first one
C3_Witness ==
    /\ lastResult.op = "placeBox"
    /\ lastResult.success
    /\ getActiveModule.boxCount = 2
    /\ \E b \in Committed(getActiveModule) : b.y - b.height \div 2 > 10

(***************************************************************************)
(* C4: place() re-derives support and validity as preview would and does   *)
(* not trust the flag of an earlier preview: with a container and a        *)
(* pending box, place() succeeds exactly when a preview run now, at the    *)
(* box's column or position, would mark it valid; also right after         *)
(* generateNewBox() with no preview in between.                            *)
(***************************************************************************)
C4_PlaceRederivesValidity ==
    (isContainerPlaced /\ HasPending(getActiveModule)) =>
        (placeBox(getActiveModule).r.success <=> FreshPreviewValid(getActiveModule))

(***************************************************************************)
(* C5: place() tells the sequencing errors apart: with no container it     *)
(* fails with the place-the-container-first message, with a container and  *)
(* no pending box it fails with the generate-a-box-first message.          *)
(***************************************************************************)
PlaceContainerFirst ==
    << "Posicione o ", IF currentMode = "cubagem" THEN "palete" ELSE "caminhao",
       " primeiro!" >>

GenerateBoxFirst == << "Gere uma caixa primeiro!" >>

C5_SequencingMessages ==
    lastResult.op = "placeBox" =>
        /\ ~isContainerPlaced =>
              (~lastResult.success /\ lastResult.message = PlaceContainerFirst)
        /\ (isContainerPlaced /\ ~HasPending(getActiveModule) /\ ~lastResult.success) =>
              lastResult.message = GenerateBoxFirst

(***************************************************************************)
(* C6: a place() refused as invalid names the violated rule: the message   *)
(* is the validator's stacking message, naming both categories, exactly    *)
(* when the pending box violates the stacking rule against its resolved    *)
(* support, also when the height bound is violated at the same time.       *)
(***************************************************************************)
C6_RejectionNamesStackingRule ==
    (/\ lastResult.op = "placeBox"
     /\ ~lastResult.success
     /\ isContainerPlaced
     /\ HasPending(getActiveModule)) =>
        LET box == getActiveModule.currentBox
            support == ResolvedSupport(getActiveModule)
        IN  IF ~canStack(box, support)
            THEN lastResult.message =
                     << "Caixa ", getColorName(box),
                        " nao pode ser empilhada sobre caixa ", getColorName(support), "!" >>
            ELSE Len(lastResult.message) = 1

(***************************************************************************)
(* C7: in a truck engine (grid and open footprint) the top of every        *)
(* committed box, its elevation plus half its height, is at most the       *)
(* truck's height 0.8 m (160), and place() of a pending box whose resolved *)
(* top would be higher fails.                                              *)
(***************************************************************************)
C7_TruckHeightBound ==
    /\ \A b \in Committed(pickingModule) : b.y + b.height \div 2 <= 160
    /\ (pickingModule.truckPlaced /\ HasPending(pickingModule)
            /\ ResolvedTop(pickingModule) > 160) =>
          ~placeBox(pickingModule).r.success

\* a place on the truck was refused for the height, with the stacking rule met
C7_Witness ==
    /\ currentMode = "picking"
    /\ lastResult.op = "placeBox"
    /\ ~lastResult.success
    /\ pickingModule.truckPlaced
    /\ HasPending(pickingModule)
    /\ ResolvedTop(pickingModule) > 160
    /\ canStack(pickingModule.currentBox, ResolvedSupport(pickingModule))
    /\ pickingModule.boxCount > 0

(***************************************************************************)
(* C8: open-footprint engine: the footprint of every committed box, its    *)
(* width x depth rectangle around (x, z), lies within the usable bounds    *)
(* |x| <= 0.95 m (190), |z| <= 0.55 m (110), whatever anchors the previews *)
(* received.                                                               *)
(***************************************************************************)
C8_FootprintInsideTruck ==
    pickingModule.kind = "truckOpen" =>
        \A b \in Committed(pickingModule) :
            /\ b.x - b.width \div 2 >= 0 - 190
            /\ b.x + b.width \div 2 <= 190
            /\ b.z - b.depth \div 2 >= 0 - 110
            /\ b.z + b.depth \div 2 <= 110

\* a box previewed far outside the truck was committed against its walls
C8_Witness ==
    /\ pickingModule.kind = "truckOpen"
    /\ lastResult.op = "placeBox"
    /\ lastResult.success
    /\ \E b \in Committed(pickingModule) :
          /\ b.x + b.width \div 2 = 190
          /\ b.z + b.depth \div 2 = 110

(***************************************************************************)
(* C9: remove of a committed box with no other committed box whose         *)
(* footprint overlaps its footprint at a strictly higher elevation         *)
(* succeeds, takes exactly that box out and lowers the count by exactly 1; *)
(* remove of a box that has such a box above it fails with the             *)
(* remove-the-boxes-above-first message and leaves the engine as it was.   *)
(* (Remove is legal with no pending box only: see C10.)                    *)
(***************************************************************************)
StrictOverlap(a, b) ==
    /\ 2 * Abs(a.x - b.x) < a.width + b.width
    /\ 2 * Abs(a.z - b.z) < a.depth + b.depth

SomethingAbove(m, ref) ==
    \E other \in getAllMeshes(m) :
        /\ other # ref
        /\ StrictOverlap(BoxAt(m, other), BoxAt(m, ref))
        /\ BoxAt(m, other).y > BoxAt(m, ref).y

StoreWithout(m, ref) ==
    IF m.kind = "truckOpen"
    THEN [ k \in 1..(Len(m.placedBoxes) - 1) |->
             IF k < ref.i THEN m.placedBoxes[k] ELSE m.placedBoxes[k + 1] ]
    ELSE [ c \in 1..Len(m.stacks) |->
             IF c # ref.c THEN m.stacks[c]
             ELSE [ k \in 1..(Len(m.stacks[c]) - 1) |->
                      IF k < ref.l THEN m.stacks[c][k] ELSE m.stacks[c][k + 1] ] ]

C9_RemoveNeedsNothingAbove ==
    ~HasPending(getActiveModule) =>
        \A ref \in getAllMeshes(getActiveModule) :
            LET m == getActiveModule
                res == removeBox(m, ref)
            IN  IF SomethingAbove(m, ref)
                THEN /\ ~res.r.success
                     /\ res.r.message = << "Remove the box(es) above it first" >>
                     /\ res.m = m
                ELSE /\ res.r.success
                     /\ res.m.boxCount = m.boxCount - 1
                     /\ Store(res.m) = StoreWithout(m, ref)

\* a remove was refused for a box above, while another committed box is free
C9_Witness ==
    /\ lastResult.op = "removeBox"
    /\ ~lastResult.success
    /\ lastResult.message = << "Remove the box(es) above it first" >>
    /\ ~HasPending(getActiveModule)
    /\ \E ref \in getAllMeshes(getActiveModule) : ~SomethingAbove(getActiveModule, ref)

(***************************************************************************)
(* C10: remove is legal only when the engine holds no pending box: a       *)
(* remove requested while a pending box exists is rejected with an error   *)
(* and changes neither the committed boxes, the count nor the pending box. *)
(***************************************************************************)
C10_RemoveNeedsEmptyHands ==
    [][ (lastResult'.op = "btnRemove" /\ HasPending(getActiveModule)) =>
          /\ ~lastResult'.success
          /\ lastResult'.message =
                 << "Cancele ou posicione a caixa atual antes de remover." >>
          /\ cubagemModule' = cubagemModule
          /\ pickingModule' = pickingModule ]_vars

\* the remove button was pressed with a box in hand and boxes committed
C10_Witness ==
    /\ lastResult.op = "btnRemove"
    /\ ~lastResult.success
    /\ HasPending(getActiveModule)
    /\ getActiveModule.boxCount > 0

(***************************************************************************)
(* C11: generateNewBox() replaces the box in hand without committing it:   *)
(* the committed boxes, the columns, the selected column, the count and    *)
(* the container are as before the call, and afterwards the engine holds   *)
(* exactly one pending box, a newly created one in preview mode (the value *)
(* the method returns is this.currentBox).                                 *)
(***************************************************************************)
GenerateStep == lastResult'.op = "generateNewBox"

\* a pending box as it leaves the constructor: nowhere, unattached, unmarked
AsCreated(box) ==
    [box EXCEPT !.x = 0, !.y = 0, !.z = 0, !.parent = FALSE, !.highlight = "none"]

C11_GenerateReplacesPending ==
    [][ GenerateStep =>
          LET m  == getActiveModule
              m2 == ActiveModuleAfter
          IN  /\ Store(m2) = Store(m)
              /\ m2.boxCount = m.boxCount
              /\ isContainerPlacedOf(m2) = isContainerPlacedOf(m)
              /\ m.kind # "truckOpen" => m2.selectedStackIndex = m.selectedStackIndex
              /\ HasPending(m2)
              /\ \E dims \in BoxDims :
                     AsCreated(m2.currentBox) = setPreviewMode(NewBox(dims), TRUE) ]_vars

\* a box was generated on an engine that holds committed boxes
C11_Witness ==
    /\ lastResult.op = "generateNewBox"
    /\ HasPending(getActiveModule)
    /\ getActiveModule.boxCount > 0

(***************************************************************************)
(* C12: generateNewBox() on an engine whose container is placed runs the   *)
(* preview resolver once before it returns: the pending box's resting      *)
(* position and its validity and highlight are what a preview computes     *)
(* against the committed boxes (grid: at the selected column; open         *)
(* footprint: at some anchor position, or at the box's own position).      *)
(***************************************************************************)
C12_GenerateRunsPreview ==
    (lastResult.op = "generateNewBox" /\ isContainerPlaced) =>
        LET m == getActiveModule
        IN  CASE m.kind = "pallet" ->
                     Cub_showPreviewAtStack(m, m.selectedStackIndex) = m
              [] m.kind = "truckGrid" ->
                     Grid_showPreviewAtStack(m, m.selectedStackIndex) = m
              [] m.kind = "truckOpen" ->
                     \/ Open_updatePreview(m, m.currentBox.x, m.currentBox.z) = m
                     \/ \E worldPos \in AnchorPositions :
                            Open_updatePreviewFromWorld(m, worldPos) = m

(***************************************************************************)
(* C13: a mode switch discards the pending box: after the mode button      *)
(* switched away from an engine, that engine holds no pending box (so a    *)
(* place() after switching back fails for want of a box, and the box that  *)
(* was in hand can never be committed).                                    *)
(***************************************************************************)
\* the engine the controller is not driving
getInactiveModule == IF currentMode = "cubagem" THEN pickingModule ELSE cubagemModule

C13_ModeSwitchDiscardsPending ==
    lastResult.op = "btnMode" => ~HasPending(getInactiveModule)

(***************************************************************************)
(* C14: reset() returns an engine to the state without a container, from   *)
(* any state: afterwards the container is not placed, no box is committed  *)
(* (no column, empty placed list), there is no pending box and the count   *)
(* is 0 (grid: selected column 0; open footprint: previewValid false), and *)
(* a following placeContainer is accepted; the reset button does this to   *)
(* both engines whatever the current mode.                                 *)
(***************************************************************************)
ContainerGroupOf(m) == IF m.kind = "pallet" THEN m.palletGroup ELSE m.truckGroup

NoContainer(m) ==
    /\ ~isContainerPlacedOf(m)
    /\ ContainerGroupOf(m) = Null
    /\ Store(m) = << >>
    /\ ~HasPending(m)
    /\ m.boxCount = 0
    /\ IF m.kind = "truckOpen" THEN ~m.previewValid
       ELSE m.selectedStackIndex = 0 /\ ~m.previewMesh

C14_ResetReturnsToNoContainer ==
    /\ \A m \in {cubagemModule, pickingModule} :
          /\ NoContainer(reset(m))
          /\ reset(m).active = m.active
          /\ \A position \in ContainerPositions :
                LET placed == placeContainer(reset(m), position)
                IN  /\ isContainerPlacedOf(placed)
                    /\ ContainerGroupOf(placed) = [position |-> position]
                    /\ Committed(placed) = {}
    /\ lastResult.op = "btnReset" =>
          NoContainer(cubagemModule) /\ NoContainer(pickingModule)

\* the reset button was pressed while the controller was driving the truck
C14_Witness ==
    /\ lastResult.op = "btnReset"
    /\ currentMode = "picking"
    /\ hitPose # Null
    /\ NoContainer(cubagemModule)
    /\ NoContainer(pickingModule)

(***************************************************************************)
(* C15: placeContainer on an engine whose container is already placed is a *)
(* silent no-op: the container and its position, the number and contents   *)
(* of the columns, the committed boxes, the pending box and the count are  *)
(* all as before, so a container is placed at most once between resets.    *)
(***************************************************************************)
C15_SecondPlaceContainerIsNoOp ==
    [][ (lastResult'.op = "placeContainer" /\ isContainerPlaced) =>
          /\ cubagemModule' = cubagemModule
          /\ pickingModule' = pickingModule
          /\ ContainerGroupOf(ActiveModuleAfter) = ContainerGroupOf(getActiveModule) ]_vars

\* placeContainer was called on an engine holding a committed and a pending box
C15_Witness ==
    /\ lastResult.op = "placeContainer"
    /\ getActiveModule.boxCount > 0
    /\ HasPending(getActiveModule)

(***************************************************************************)
(* C16: preview never mutates committed state: for every preview input     *)
(* (any anchor position, any column) the committed boxes with their        *)
(* coordinates, the columns, the count and the container are the same      *)
(* before and after the call; only the pending box's position, validity    *)
(* and highlight (and its attachment to the scene) may change.             *)
(***************************************************************************)
\* the engine after a preview call, for every input of the call
PreviewOutcomes(m) ==
    CASE m.kind = "truckOpen" ->
             { Open_updatePreviewFromWorld(m, worldPos) : worldPos \in AnchorPositions }
      [] m.kind = "truckGrid" ->
             { Grid_showPreviewAtStack(m, stackIndex) : stackIndex \in 0..Len(m.stacks) }
      [] m.kind = "pallet" ->
             { Cub_showPreviewAtStack(m, stackIndex) : stackIndex \in 0..Len(m.stacks) }

\* m2 differs from m at most in the pending box's position, validity and highlight
OnlyPendingMoved(m, m2) ==
    /\ IF m.kind = "truckOpen"
       THEN m2 = [m EXCEPT !.currentBox = m2.currentBox, !.previewValid = m2.previewValid]
       ELSE m2 = [m EXCEPT !.currentBox = m2.currentBox, !.previewMesh = m2.previewMesh]
    /\ HasPending(m2) = HasPending(m)
    /\ HasPending(m) => AsCreated(m2.currentBox) = AsCreated(m.currentBox)

C16_PreviewKeepsCommitted ==
    \A m \in {cubagemModule, pickingModule} :
        \A m2 \in PreviewOutcomes(m) :
            /\ Store(m2) = Store(m)
            /\ m2.boxCount = m.boxCount
            /\ OnlyPendingMoved(m, m2)

\* a preview over a committed box marked the pending box as refused
C16_Witness ==
    /\ lastResult.op = "preview"
    /\ getActiveModule.boxCount > 0
    /\ HasPending(getActiveModule)
    /\ getActiveModule.currentBox.highlight = "error"
    /\ \E m2 \in PreviewOutcomes(getActiveModule) : m2 # getActiveModule

(***************************************************************************)
(* C17: preview is a no-op, not an error, whenever the engine has no       *)
(* pending box or no placed container: in those states a preview call, for *)
(* every input, returns normally and leaves the engine exactly as it was.  *)
(***************************************************************************)
C17_PreviewNoOpWithoutBoxOrContainer ==
    \A m \in {cubagemModule, pickingModule} :
        (~HasPending(m) \/ ~isContainerPlacedOf(m)) =>
            \A m2 \in PreviewOutcomes(m) : m2 = m

\* a preview was called with a box in hand and no truck placed
C17_Witness ==
    /\ lastResult.op = "preview"
    /\ HasPending(getActiveModule)
    /\ ~isContainerPlaced

(***************************************************************************)
(* C18: when the hit test reports no position, a frame's preview is a      *)
(* no-op, and the place button, both when it would place the container and *)
(* when it would place the pending box, is rejected as a user error with   *)
(* the no-surface-detected message and leaves both engines unchanged.      *)
(***************************************************************************)
NoSurfaceDetected == << "Nenhuma superficie detectada!" >>

C18_NoSurfaceIsRejected ==
    [][ /\ (lastResult'.op = "frame" /\ hitPose' = Null /\ HasPending(getActiveModule)) =>
              /\ cubagemModule' = cubagemModule
              /\ pickingModule' = pickingModule
        /\ (/\ lastResult'.op = "btnPlace"
            /\ hitPose = Null
            /\ ~isContainerPlaced \/ HasPending(getActiveModule)) =>
              /\ ~lastResult'.success
              /\ lastResult'.message = NoSurfaceDetected
              /\ cubagemModule' = cubagemModule
              /\ pickingModule' = pickingModule ]_vars

(***************************************************************************)
(* C19: every mutating operation (placeContainer, generateNewBox, place,   *)
(* remove, cycleStack, reset), invoked through the controller in any       *)
(* reachable state, reports a success flag together with a user-facing     *)
(* message (showFeedback(message, type)) and never raises.                 *)
(***************************************************************************)
MutatingHandlers == { "btnPlace", "btnNewBox", "btnRemove", "docClick", "btnReset" }

C19_EveryOperationReportsResult ==
    [][ lastResult'.op \in MutatingHandlers =>
          /\ lastResult'.success \in BOOLEAN
          /\ lastResult'.message # NoMessage ]_vars

(***************************************************************************)
(* C20: the resolver of the open-footprint engine (_findTopAt): a          *)
(* candidate whose footprint overlaps no committed box gets no support and *)
(* rests at floor (0.03) + candidate.height / 2; a candidate whose         *)
(* footprint overlaps exactly one committed box A (fully, or in part) gets *)
(* A as support and rests at A.top + candidate.height / 2, where           *)
(* A.top = A.y + A.height / 2.                                             *)
(***************************************************************************)
\* positions (truck coordinates) the resolver is probed at
ProbePositions == { [x |-> px, z |-> pz] : px \in {0 - 30, 0, 30, 60, 100}, pz \in {0, 50} }

\* the committed boxes of m under the footprint of a box of these dims at pos
Under(m, dims, pos) ==
    { i \in 1..Len(m.placedBoxes) :
        StrictOverlap([x |-> pos.x, z |-> pos.z, width |-> dims.w, depth |-> dims.d],
                      m.placedBoxes[i]) }

C20_OpenResolver ==
    pickingModule.kind = "truckOpen" =>
        \A dims \in BoxDims : \A pos \in ProbePositions :
            LET m     == pickingModule
                found == Open_findTopAt(m, pos.x, pos.z, NewBox(dims))
                under == Under(m, dims, pos)
            IN  /\ under = {} =>
                      /\ found.topBox = Null
                      /\ 2 * found.stackY = 2 * 6 + dims.h
                /\ \A i \in under :
                      under = {i} =>
                          /\ found.topBox = m.placedBoxes[i]
                          /\ 2 * found.stackY =
                                 2 * m.placedBoxes[i].y + m.placedBoxes[i].height + dims.h

\* the pending box was previewed right over a committed box and rests on it,
\* while another probe position is free of committed boxes
C20_Witness ==
    /\ pickingModule.kind = "truckOpen"
    /\ lastResult.op = "preview"
    /\ HasPending(pickingModule)
    /\ \E i \in 1..Len(pickingModule.placedBoxes) :
          LET A == pickingModule.placedBoxes[i]
              B == pickingModule.currentBox
          IN  /\ Under(pickingModule, [w |-> B.width, d |-> B.depth], B) = {i}
              /\ B.x = A.x /\ B.z = A.z
              /\ 2 * B.y = 2 * A.y + A.height + B.height
    /\ \E dims \in BoxDims : \E pos \in ProbePositions : Under(pickingModule, dims, pos) = {}

(***************************************************************************)
(* C21: the resolver of the open-footprint engine counts a committed box   *)
(* as overlapping the candidate only if on both axes the distance between  *)
(* the centres is strictly less than the sum of the half-extents (boxes    *)
(* that touch edge to edge do not overlap), and among the overlapping      *)
(* boxes the support is one with the highest top surface, whose top is the *)
(* candidate's resting base.                                               *)
(***************************************************************************)
TopOf(box) == box.y + box.height \div 2

\* the committed box at index i touches the candidate edge to edge on the x axis
TouchesOnX(m, dims, pos, i) ==
    /\ 2 * Abs(m.placedBoxes[i].x - pos.x) = m.placedBoxes[i].width + dims.w
    /\ 2 * Abs(m.placedBoxes[i].z - pos.z) < m.placedBoxes[i].depth + dims.d

C21_OpenResolverHighestOverlap ==
    pickingModule.kind = "truckOpen" =>
        \A dims \in BoxDims : \A pos \in ProbePositions :
            LET m     == pickingModule
                found == Open_findTopAt(m, pos.x, pos.z, NewBox(dims))
                under == Under(m, dims, pos)
            IN  /\ under # {} =>
                      /\ \E i \in under : found.topBox = m.placedBoxes[i]
                      /\ \A i \in under : TopOf(found.topBox) >= TopOf(m.placedBoxes[i])
                      /\ 2 * found.stackY = 2 * TopOf(found.topBox) + dims.h
                /\ \A i \in 1..Len(m.placedBoxes) :
                      TouchesOnX(m, dims, pos, i) =>
                          /\ i \notin under
                          /\ found.topBox # m.placedBoxes[i]

\* the pending box was previewed over two committed boxes of different tops
\* and rests on the higher one, while some candidate would touch a box's edge
C21_Witness ==
    /\ pickingModule.kind = "truckOpen"
    /\ lastResult.op = "preview"
    /\ HasPending(pickingModule)
    /\ LET m == pickingModule
           B == m.currentBox
           under == Under(m, [w |-> B.width, d |-> B.depth], B)
       IN  /\ \E i, j \in under : TopOf(m.placedBoxes[i]) < TopOf(m.placedBoxes[j])
           /\ \E j \in under : 2 * B.y = 2 * TopOf(m.placedBoxes[j]) + B.height
           /\ \E dims \in BoxDims : \E pos \in ProbePositions :
                 \E i \in 1..Len(m.placedBoxes) : TouchesOnX(m, dims, pos, i)

(***************************************************************************)
(* C22: the resolver of the grid engines: for every column holding boxes   *)
(* b1..bn (bottom to top) the support is bn (none if n = 0) and a          *)
(* candidate rests at floor + height(b1) + ... + height(bn) +              *)
(* candidate.height / 2 (floor 0.05 on the pallet, 0.03 in the truck);     *)
(* so in every reachable state the bottom of each committed box is the top *)
(* of the box directly below it in its column, or the floor.               *)
(***************************************************************************)
\* height(b1) + ... + height(bn) of the lowest n boxes of a column
RECURSIVE HeightUpTo(_, _)
HeightUpTo(stack, n) ==
    IF n = 0 THEN 0 ELSE HeightUpTo(stack, n - 1) + stack[n].height

C22_GridResolver ==
    \A m \in {cubagemModule, pickingModule} :
        m.kind # "truckOpen" =>
            \A c \in 1..Len(m.stacks) :
                LET stack == m.stacks[c]
                    n     == Len(stack)
                    floor == IF m.kind = "pallet" THEN 10 ELSE 6
                IN  /\ getTopBox(stack) = IF n = 0 THEN Null ELSE stack[n]
                    /\ \A dims \in BoxDims :
                          2 * getStackY(NewBox(dims), stack, floor)
                              = 2 * floor + 2 * HeightUpTo(stack, n) + dims.h
                    /\ \A l \in 1..n :
                          2 * stack[l].y - stack[l].height
                              = IF l = 1 THEN 2 * floor ELSE 2 * TopOf(stack[l - 1])

\* a second box was placed in a column of a grid engine
C22_Witness ==
    /\ lastResult.op = "placeBox"
    /\ lastResult.success
    /\ getActiveModule.kind # "truckOpen"
    /\ \E c \in 1..Len(getActiveModule.stacks) :
          /\ Len(getActiveModule.stacks[c]) = 2
          /\ getTopBox(getActiveModule.stacks[c]).y > getActiveModule.stacks[c][1].y

(***************************************************************************)
(* C23: what the open-footprint resolver returns for a candidate depends   *)
(* only on the set of committed boxes, not on the order in which they were *)
(* committed: for every permutation of the committed list it yields the    *)
(* same resting elevation and a support of the same category, hence the    *)
(* same validity verdict.                                                  *)
(***************************************************************************)
\* the orders the same boxes could have been committed in
Reorderings(placedBoxes) ==
    LET n == Len(placedBoxes)
    IN  { [k \in 1..n |-> placedBoxes[p[k]]] :
            p \in { q \in [1..n -> 1..n] : \A a, b \in 1..n : q[a] = q[b] => a = b } }

SupportCategory(found) ==
    IF found.topBox = Null THEN "none" ELSE found.topBox.colorCategory

C23_ResolverIgnoresCommitOrder ==
    pickingModule.kind = "truckOpen" =>
        \A dims \in BoxDims : \A pos \in ProbePositions :
            \A reordered \in Reorderings(pickingModule.placedBoxes) :
                LET m      == pickingModule
                    found  == Open_findTopAt(m, pos.x, pos.z, NewBox(dims))
                    found2 == Open_findTopAt([m EXCEPT !.placedBoxes = reordered],
                                             pos.x, pos.z, NewBox(dims))
                IN  /\ found2.stackY = found.stackY
                    /\ SupportCategory(found2) = SupportCategory(found)
                    /\ canStack(NewBox(dims), found2.topBox)
                           = canStack(NewBox(dims), found.topBox)

(***************************************************************************)
(* C24: cycleStack() on a grid engine with a placed container sets the     *)
(* selected column to (old index + 1) mod the number of columns (the value *)
(* it returns), re-runs the preview of the pending box, if any, against    *)
(* the new column, and leaves the committed boxes and the count unchanged; *)
(* as many consecutive calls as there are columns bring the index back to  *)
(* where it started.                                                       *)
(***************************************************************************)
RECURSIVE CycleTimes(_, _)
CycleTimes(m, k) == IF k = 0 THEN m ELSE CycleTimes(cycleStack(m), k - 1)

\* the pending box of m as a preview at m's selected column leaves it
PendingAtSelectedColumn(m) ==
    LET stack == m.stacks[m.selectedStackIndex + 1]
        box   == m.currentBox
        top   == GridFloor(m) + HeightUpTo(stack, Len(stack)) + box.height
        refused == \/ Len(stack) > 0 /\ CategoryWeight(box.colorCategory)
                                          > CategoryWeight(stack[Len(stack)].colorCategory)
                   \/ m.kind = "truckGrid" /\ top > 160
    IN  [box EXCEPT !.x = GridColumnCentre(m).x,
                    !.z = GridColumnCentre(m).z,
                    !.y = top - box.height \div 2,
                    !.parent = TRUE,
                    !.highlight = IF refused THEN "error" ELSE "none"]

C24_CycleStackAdvances ==
    [][ (lastResult'.op = "cycleStack" /\ isContainerPlaced) =>
          LET m  == getActiveModule
              m2 == ActiveModuleAfter
              n  == Len(m.stacks)
          IN  /\ m2.selectedStackIndex = (m.selectedStackIndex + 1) % n
              /\ Store(m2) = Store(m)
              /\ m2.boxCount = m.boxCount
              /\ HasPending(m2) = HasPending(m)
              /\ HasPending(m) =>
                    m2.currentBox =
                        PendingAtSelectedColumn(
                            [m EXCEPT !.selectedStackIndex = m2.selectedStackIndex])
              /\ CycleTimes(m, n).selectedStackIndex = m.selectedStackIndex
              /\ \A k \in 1..(n - 1) :
                    CycleTimes(m, k).selectedStackIndex # m.selectedStackIndex ]_vars

\* the selection wrapped around to the first column with a refused box in hand
C24_Witness ==
    /\ lastResult.op = "cycleStack"
    /\ isContainerPlaced
    /\ getActiveModule.selectedStackIndex = 0
    /\ getActiveModule.boxCount > 0
    /\ HasPending(getActiveModule)
    /\ getActiveModule.currentBox.highlight = "error"

(***************************************************************************)
(* C25: the two engines never share state: generateNewBox, preview, place, *)
(* cycleStack and placeContainer, applied by the controller to the engine  *)
(* of the current mode, leave the other engine (its container, committed   *)
(* boxes, pending box and count) unchanged.                                *)
(***************************************************************************)
EngineHandlers == { "frame", "btnNewBox", "btnPlace", "docClick" }

C25_EnginesShareNoState ==
    [][ lastResult'.op \in EngineHandlers =>
          /\ currentMode' = currentMode
          /\ IF currentMode = "cubagem"
             THEN pickingModule' = pickingModule
             ELSE cubagemModule' = cubagemModule ]_vars

\* a box was placed in the truck while the pallet holds a committed box
C25_Witness ==
    /\ lastResult.op = "btnPlace"
    /\ lastResult.success
    /\ currentMode = "picking"
    /\ pickingModule.boxCount > 0
    /\ cubagemModule.boxCount > 0

(***************************************************************************)
(* C26: after initialisation and after any sequence of mode switches and   *)
(* resets exactly one of the two engines is marked active, it is the       *)
(* engine of the current mode, and the frame, new-box and place handlers   *)
(* call that engine only.                                                  *)
(***************************************************************************)
ExactlyOneActive ==
    /\ cubagemModule.active # pickingModule.active
    /\ getActiveModule.active

LaterPreviews(m) ==
    IF m.kind = "truckOpen"
    THEN { Open_updatePreviewFromWorld(m, worldPos) : worldPos \in AnchorPositions }
    ELSE { CycleTimes(m, k) : k \in 1..Len(m.stacks) }

\* the stacking rule and the height bound hold where the pending box of m is
RulesHold(m) ==
    /\ \/ ResolvedSupport(m) = Null
       \/ CategoryWeight(m.currentBox.colorCategory)
              <= CategoryWeight(ResolvedSupport(m).colorCategory)
    /\ m.kind # "pallet" => ResolvedTop(m) <= 160

MarkedInvalid(m) ==
    /\ HasPending(m)
    /\ isContainerPlacedOf(m)
    /\ m.currentBox.highlight = "error"

C27_InvalidPreviewDoesNotBlock ==
    MarkedInvalid(getActiveModule) =>
        \A m2 \in LaterPreviews(getActiveModule) :
            /\ m2.currentBox.highlight = "none" <=> RulesHold(m2)
            /\ m2.kind = "truckOpen" => (m2.previewValid <=> RulesHold(m2))
            /\ RulesHold(m2) =>
                  /\ placeBox(m2).r.success
                  /\ placeBox(m2).m.boxCount = m2.boxCount + 1

\* the pending box is marked invalid where it is and a later preview accepts it
C27_Witness ==
    /\ lastResult.op \in { "preview", "cycleStack" }
    /\ MarkedInvalid(getActiveModule)
    /\ \E m2 \in LaterPreviews(getActiveModule) :
          m2.currentBox.highlight = "none" /\ placeBox(m2).r.success

(***************************************************************************)
(* C28: the scenario on the open-footprint engine, truck placed and empty: *)
(* box A (0.3 x 0.2 x 0.3, Medium) placed at footprint centre (0,0) rests  *)
(* at floor + 0.1 and the count becomes 1; box B (0.2 x 0.2 x 0.2, Light)  *)
(* placed at the same centre gets A as support, rests at A.top + 0.1, is   *)
(* accepted and the count becomes 2; a Heavy box C placed at the same      *)
(* footprint gets B as support, canStack is false, place fails and the     *)
(* count remains 2.                                                        *)
(***************************************************************************)
ScenarioA == [w |-> 60, h |-> 40, d |-> 60]

ScenarioB == [w |-> 40, h |-> 40, d |-> 40]

\* the pending box of m has these dimensions and was previewed at centre (0,0)
PreviewedAtCentre(m, dims) ==
    /\ HasPending(m)
    /\ AsCreated(m.currentBox) = setPreviewMode(NewBox(dims), TRUE)
    /\ m.currentBox.parent
    /\ m.currentBox.x = 0 /\ m.currentBox.z = 0

\* the committed box is a box of these dimensions resting at centre (0,0), at y
CommittedAtCentre(box, dims, y) ==
    /\ [box EXCEPT !.x = 0, !.y = 0, !.z = 0, !.parent = FALSE] = NewBox(dims)
    /\ box.x = 0 /\ box.z = 0 /\ box.y = y

ScenarioAfterA(m) ==
    /\ Len(m.placedBoxes) = 1
    /\ CommittedAtCentre(m.placedBoxes[1], ScenarioA, 6 + 20)
    /\ m.boxCount = 1

ScenarioAfterB(m) ==
    /\ Len(m.placedBoxes) = 2
    /\ CommittedAtCentre(m.placedBoxes[1], ScenarioA, 6 + 20)
    /\ CommittedAtCentre(m.placedBoxes[2], ScenarioB, TopOf(m.placedBoxes[1]) + 20)
    /\ m.boxCount = 2

C28_Scenario ==
    [][ (PlaceStep /\ getActiveModule.kind = "truckOpen") =>
          LET m  == getActiveModule
              m2 == ActiveModuleAfter
          IN  /\ (m.placedBoxes = << >> /\ m.boxCount = 0
                    /\ PreviewedAtCentre(m, ScenarioA)) =>
                    /\ NewBox(ScenarioA).colorCategory = "green"
                    /\ lastResult'.success
                    /\ ScenarioAfterA(m2)
              /\ (ScenarioAfterA(m) /\ PreviewedAtCentre(m, ScenarioB)) =>
                    /\ NewBox(ScenarioB).colorCategory = "blue"
                    /\ ResolvedSupport(m) = m.placedBoxes[1]
                    /\ lastResult'.success
                    /\ ScenarioAfterB(m2)
              /\ \A dims \in BoxDims :
                    (/\ ScenarioAfterB(m)
                     /\ NewBox(dims).colorCategory = "red"
                     /\ PreviewedAtCentre(m, dims)) =>
                        /\ ResolvedSupport(m) = m.placedBoxes[2]
                        /\ ~canStack(m.currentBox, ResolvedSupport(m))
                        /\ ~lastResult'.success
                        /\ ScenarioAfterB(m2) ]_vars

\* the end of the scenario: C was refused over A and B
C28_Witness ==
    /\ lastResult.op = "placeBox"
    /\ ~lastResult.success
    /\ pickingModule.kind = "truckOpen"
    /\ currentMode = "picking"
    /\ ScenarioAfterB(pickingModule)
    /\ \E dims \in BoxDims :
          NewBox(dims).colorCategory = "red" /\ PreviewedAtCentre(pickingModule, dims)

(***************************************************************************)
(* C29: classifyVolume assigns exactly one category to every volume: red   *)
(* (Heavy) iff volume > 0.05, green (Medium) iff 0.015 < volume <= 0.05,   *)
(* blue (Light) iff volume <= 0.015, a volume equal to a threshold falling *)
(* in the lower category; so the category never decreases as the volume    *)
(* grows, and every box of every reachable state carries the category of   *)
(* its width x height x depth.                                             *)
(***************************************************************************)
\* dimensions within DIM_MIN..DIM_MAX; 0.5 x 0.2 x 0.5 = 0.05 and
\* 0.3 x 0.25 x 0.2 = 0.015 are the two thresholds exactly
ProbeDims == { DIM_MIN, 40, 50, 60, DIM_MAX }

ProbeVolumes ==
    { w * h * d : w \in ProbeDims, h \in ProbeDims, d \in ProbeDims }
        \cup { VOLUME_MID - 1, VOLUME_MID + 1, VOLUME_HIGH - 1, VOLUME_HIGH + 1 }

ClassifyLaw ==
    /\ { VOLUME_MID, VOLUME_HIGH } \subseteq ProbeVolumes
    /\ \A v \in ProbeVolumes :
          /\ classifyVolume(v) \in { "red", "green", "blue" }
          /\ classifyVolume(v) = "red"   <=> v > 400000
          /\ classifyVolume(v) = "green" <=> (120000 < v /\ v <= 400000)
          /\ classifyVolume(v) = "blue"  <=> v <= 120000
    /\ \A v1, v2 \in ProbeVolumes :
          v1 <= v2 => CategoryWeight(classifyVolume(v1)) <= CategoryWeight(classifyVolume(v2))

C29_ClassifyPartitionsVolumes ==
    /\ ClassifyLaw
    /\ \A m \in {cubagemModule, pickingModule} :
          \A box \in Committed(m) \cup (IF HasPending(m) THEN {m.currentBox} ELSE {}) :
              /\ box.volume = box.width * box.height * box.depth
              /\ box.colorCategory = classifyVolume(box.volume)
              /\ box.colorCategory = "red" <=> box.volume > 400000
              /\ box.colorCategory = "blue" <=> box.volume <= 120000

\* boxes of all three categories are in the truck or in hand
C29_Witness ==
    /\ lastResult.op = "generateNewBox"
    /\ { box.colorCategory :
            box \in Committed(pickingModule)
                      \cup (IF HasPending(pickingModule)
                            THEN {pickingModule.currentBox} ELSE {}) }
           = { "red", "green", "blue" }

(***************************************************************************)
(* C30: getStackError(candidate, support) returns null exactly when        *)
(* canStack(candidate, support) is true (also when there is no support),   *)
(* and otherwise returns a message that names the candidate's category     *)
(* and the support's category: for every pair of categories, and for the   *)
(* pending box of every reachable state against every committed box.       *)
(***************************************************************************)
CategoryName(category) ==
    CASE category = "red"   -> "Vermelha"
      [] category = "green" -> "Verde"
      [] category = "blue"  -> "Azul"

\* the error for candidate over support is null iff they may stack, and else
\* names both categories
StackErrorAgrees(candidate, support) ==
    LET error == getStackError(candidate, support)
    IN  /\ error = NoMessage <=> canStack(candidate, support)
        /\ error # NoMessage =>
              /\ support # Null
              /\ Len(error) = 5
              /\ error[2] = CategoryName(candidate.colorCategory)
              /\ error[4] = CategoryName(support.colorCategory)

C30_StackErrorMatchesCanStack ==
    /\ \A a \in BoxDims :
          /\ getStackError(NewBox(a), Null) = NoMessage
          /\ \A b \in BoxDims : StackErrorAgrees(NewBox(a), NewBox(b))
    /\ HasPending(getActiveModule) =>
          /\ StackErrorAgrees(getActiveModule.currentBox, Null)
          /\ \A s \in Committed(getActiveModule) :
                StackErrorAgrees(getActiveModule.currentBox, s)

\* a place was refused with the message that names a red box over a blue one
C30_Witness ==
    /\ lastResult.op = "placeBox"
    /\ ~lastResult.success
    /\ HasPending(getActiveModule)
    /\ isContainerPlaced
    /\ ResolvedSupport(getActiveModule) # Null
    /\ lastResult.message =
           getStackError(getActiveModule.currentBox, ResolvedSupport(getActiveModule))
    /\ lastResult.message =
           << "Caixa ", "Vermelha", " nao pode ser empilhada sobre caixa ", "Azul", "!" >>

(***************************************************************************)
(* C31: canStack(a, b) is true whenever a and b have the same category,    *)
(* and for every two distinct categories exactly one of canStack(a, b)     *)
(* and canStack(b, a) is true: for every pair of box sizes, and for every  *)
(* pair of boxes an engine holds (committed or pending) in a reachable     *)
(* state.                                                                  *)
(***************************************************************************)
StackOrderLaw(a, b) ==
    IF a.colorCategory = b.colorCategory
    THEN canStack(a, b) /\ canStack(b, a)
    ELSE canStack(a, b) # canStack(b, a)

\* every box the active engine holds: the committed ones and the pending one
Held(m) == Committed(m) \cup (IF HasPending(m) THEN {m.currentBox} ELSE {})

C31_CanStackReflexiveAntisymmetric ==
    /\ \A a, b \in BoxDims : StackOrderLaw(NewBox(a), NewBox(b))
    /\ \A a, b \in Held(getActiveModule) : StackOrderLaw(a, b)

\* a box was committed on top of a box of another category: the upper one
\* may rest on the lower one and not the other way round
C31_Witness ==
    /\ lastResult.op = "placeBox"
    /\ lastResult.success
    /\ \E lower, upper \in Committed(getActiveModule) :
          /\ lower.y < upper.y
          /\ lower.x = upper.x /\ lower.z = upper.z
          /\ lower.colorCategory # upper.colorCategory
          /\ canStack(upper, lower)
          /\ ~canStack(lower, upper)

(***************************************************************************)
(* C32: in every reachable state of every engine the reported count equals *)
(* the number of committed boxes (grid engines: the sum of the lengths of  *)
(* all columns; open-footprint engine: the length of the placed list),     *)
(* whatever handlers have run: container placement, new box, preview,      *)
(* column cycling, accepted and refused places, mode switches and resets.  *)
(***************************************************************************)
CommittedCount(m) ==
    IF m.kind = "truckOpen"
    THEN Len(m.placedBoxes)
    ELSE Cardinality(UNION { { <<c, l>> : l \in 1..Len(m.stacks[c]) } :
                                 c \in 1..Len(m.stacks) })

C32_CountIsCommittedCount ==
    /\ getBoxCount(cubagemModule) = CommittedCount(cubagemModule)
    /\ getBoxCount(pickingModule) = CommittedCount(pickingModule)

\* each engine holds one box, the controller has switched from the pallet to
\* the truck, and the place just asked for was refused
C32_Witness ==
    /\ lastResult.op = "btnPlace"
    /\ ~lastResult.success
    /\ currentMode = "picking"
    /\ HasPending(pickingModule)
    /\ getBoxCount(cubagemModule) = 1
    /\ getBoxCount(pickingModule) = 1

(***************************************************************************)
(* C33: grid engines: in every reachable state, within every column the    *)
(* category weights of the committed boxes are non-increasing from bottom  *)
(* to top: no box sits directly on a strictly lighter box.                 *)
(***************************************************************************)
IsGrid(m) == m.kind \in {"pallet", "truckGrid"}

ColumnOrdered(stack) ==
    \A l \in 1..(Len(stack) - 1) :
        CategoryWeight(stack[l + 1].colorCategory) <= CategoryWeight(stack[l].colorCategory)

C33_ColumnsNonIncreasing ==
    \A m \in {cubagemModule, pickingModule} :
        IsGrid(m) => \A c \in 1..Len(m.stacks) : ColumnOrdered(m.stacks[c])

\* a lighter box was accepted on top of a strictly heavier one in a column
C33_Witness ==
    /\ lastResult.op = "placeBox"
    /\ lastResult.success
    /\ IsGrid(getActiveModule)
    /\ \E c \in 1..Len(getActiveModule.stacks) :
          LET stack == getActiveModule.stacks[c]
          IN  /\ Len(stack) = 2
              /\ CategoryWeight(stack[2].colorCategory)
                     < CategoryWeight(stack[1].colorCategory)

(***************************************************************************)
(* C34: open-footprint engine: in every reachable state, for every         *)
(* committed box X and every committed box Y whose footprint overlaps X's  *)
(* footprint and whose top surface is at X's bottom (X rests in contact    *)
(* with Y), weight(X) <= weight(Y), also when several overlapping boxes    *)
(* share the highest top surface under X.  Stated of the committed boxes   *)
(* of every reachable state and of those a placeBox() called in that state *)
(* leaves behind.                                                          *)
(***************************************************************************)
\* the overlap test of _findTopAt, between two boxes
OverlapTest(a, b) ==
    /\ Abs(a.x - b.x) < (a.width + b.width) \div 2
    /\ Abs(a.z - b.z) < (a.depth + b.depth) \div 2

BottomOf(box) == box.y - box.height \div 2

InContact(X, Y) == OverlapTest(X, Y) /\ TopOf(Y) = BottomOf(X)

ContactRule(placedBoxes) ==
    \A i, j \in 1..Len(placedBoxes) :
        (i # j /\ InContact(placedBoxes[i], placedBoxes[j])) =>
            CategoryWeight(placedBoxes[i].colorCategory)
                <= CategoryWeight(placedBoxes[j].colorCategory)

C34_ContactRespectsWeight ==
    pickingModule.kind = "truckOpen" =>
        /\ ContactRule(pickingModule.placedBoxes)
        /\ ContactRule(Open_placeBox(pickingModule).m.placedBoxes)

(***************************************************************************)
(* C35: open-footprint engine: in every reachable state no two committed   *)
(* boxes interpenetrate: for any two committed boxes whose footprints      *)
(* overlap (strictly), the vertical extents [y - height/2, y + height/2]   *)
(* meet in at most a single plane, and no committed box extends below the  *)
(* floor.  Stated of the committed boxes of every reachable state and of   *)
(* those a placeBox() called in that state leaves behind.                  *)
(***************************************************************************)
NoInterpenetration(m, placedBoxes) ==
    /\ \A i, j \in 1..Len(placedBoxes) :
          (i # j /\ OverlapTest(placedBoxes[i], placedBoxes[j])) =>
              \/ TopOf(placedBoxes[i]) <= BottomOf(placedBoxes[j])
              \/ TopOf(placedBoxes[j]) <= BottomOf(placedBoxes[i])
    /\ \A i \in 1..Len(placedBoxes) : BottomOf(placedBoxes[i]) >= m.floorY

C35_NoInterpenetration ==
    pickingModule.kind = "truckOpen" =>
        /\ NoInterpenetration(pickingModule, pickingModule.placedBoxes)
        /\ NoInterpenetration(pickingModule, Open_placeBox(pickingModule).m.placedBoxes)

\* two committed boxes overlap only partly, one resting on the other, and a
\* pending box previewed over both is about to be committed on top
C35_Witness ==
    /\ pickingModule.kind = "truckOpen"
    /\ lastResult.op = "preview"
    /\ HasPending(pickingModule)
    /\ pickingModule.previewValid
    /\ Len(pickingModule.placedBoxes) = 2
    /\ LET A == pickingModule.placedBoxes[1]
           B == pickingModule.placedBoxes[2]
           X == pickingModule.currentBox
       IN  /\ A.x # B.x
           /\ InContact(B, A)
           /\ OverlapTest(X, A) /\ OverlapTest(X, B)
           /\ BottomOf(X) = TopOf(B)

(***************************************************************************)
(* C36: grid engines: columns are independent lanes: two committed boxes   *)
(* in different columns never have overlapping footprints, for all box     *)
(* dimensions in the configured range [0.1, 0.5] (pallet: 3 x 2 columns    *)
(* spaced 0.38 x 0.42; truck: 4 x 2 columns spaced 0.4 x 0.4).             *)
(***************************************************************************)
C36_ColumnsAreDisjointLanes ==
    \A m \in {cubagemModule, pickingModule} :
        IsGrid(m) =>
            \A c1, c2 \in 1..Len(m.stacks) :
                c1 # c2 =>
                    \A l1 \in 1..Len(m.stacks[c1]) : \A l2 \in 1..Len(m.stacks[c2]) :
                        ~OverlapTest(m.stacks[c1][l1], m.stacks[c2][l2])

(***************************************************************************)
(* C37: grid engines: in every reachable state the footprint of every      *)
(* committed box is fully enclosed by the container platform (pallet       *)
(* 1.2 x 1.0, truck bed 2.0 x 1.2, centred on the container origin), for   *)
(* all box dimensions in the configured range [0.1, 0.5].                  *)
(***************************************************************************)
\* half of the platform's extent along x and z
PlatformHalf(m) ==
    IF m.kind = "pallet"
    THEN [x |-> 240 \div 2, z |-> 200 \div 2]          \* BoxGeometry(1.2, 0.05, 1.0)
    ELSE [x |-> m.truckWidth \div 2, z |-> m.truckDepth \div 2]

C37_FootprintInsidePlatform ==
    \A m \in {cubagemModule, pickingModule} :
        IsGrid(m) =>
            \A b \in Committed(m) :
                /\ b.x - b.width \div 2 >= 0 - PlatformHalf(m).x
                /\ b.x + b.width \div 2 <= PlatformHalf(m).x
                /\ b.z - b.depth \div 2 >= 0 - PlatformHalf(m).z
                /\ b.z + b.depth \div 2 <= PlatformHalf(m).z

(***************************************************************************)
(* C38: in every reachable state of every engine, a container that is not  *)
(* placed implies an empty committed set and count 0 (grid engines: zero   *)
(* columns), and a placed grid container has exactly its fixed number of   *)
(* columns (6 on the pallet, 8 in the truck), all of them empty right      *)
(* after the placeContainer that placed it; no operation other than reset  *)
(* changes the number of columns of a placed container.                    *)
(***************************************************************************)
ColumnCount(m) == IF m.kind = "pallet" THEN 3 * 2 ELSE 4 * 2

ContainerStateLaw(m) ==
    /\ ~isContainerPlacedOf(m) =>
          /\ Committed(m) = {}
          /\ getBoxCount(m) = 0
          /\ IsGrid(m) => Len(m.stacks) = 0
    /\ (isContainerPlacedOf(m) /\ IsGrid(m)) => Len(m.stacks) = ColumnCount(m)

C38_ContainerAndColumns ==
    /\ [](ContainerStateLaw(cubagemModule) /\ ContainerStateLaw(pickingModule))
    /\ [][ LET m  == getActiveModule
               m2 == ActiveModuleAfter
           IN  /\ (lastResult'.op = "placeContainer" /\ ~isContainerPlacedOf(m)) =>
                     /\ isContainerPlacedOf(m2)
                     /\ Committed(m2) = {}
                     /\ IsGrid(m2) => /\ Len(m2.stacks) = ColumnCount(m2)
                                      /\ \A c \in 1..Len(m2.stacks) : m2.stacks[c] = << >>
               /\ (lastResult'.op # "reset" /\ isContainerPlacedOf(m) /\ IsGrid(m)) =>
                     Len(m2.stacks) = Len(m.stacks) ]_vars

\* the truck of the grid engine was just placed with a box already in hand:
\* eight columns, all empty
C38_Witness ==
    /\ lastResult.op = "placeContainer"
    /\ getActiveModule.kind = "truckGrid"
    /\ isContainerPlaced
    /\ HasPending(getActiveModule)
    /\ Len(getActiveModule.stacks) = 8
    /\ \A c \in 1..8 : getActiveModule.stacks[c] = << >>

(***************************************************************************)
(* C39: a pending box exists only in the ContainerPlaced state: in every   *)
(* state reachable through the controller's handlers (new box, place,      *)
(* mode, reset, and the others), an engine that holds a pending box has    *)
(* its container placed, and the pending box is not at the same time a     *)
(* member of the committed set.                                            *)
(***************************************************************************)
PendingLaw(m) ==
    HasPending(m) =>
        /\ isContainerPlacedOf(m)
        /\ m.currentBox \notin Committed(m)

C39_PendingOnlyWithContainer ==
    PendingLaw(cubagemModule) /\ PendingLaw(pickingModule)

\* both engines hold a pending box at once, each over its own container,
\* after a switch of mode; the truck holds a committed box as well
C39_Witness ==
    /\ lastResult.op = "btnNewBox"
    /\ currentMode = "picking"
    /\ HasPending(cubagemModule) /\ isContainerPlacedOf(cubagemModule)
    /\ HasPending(pickingModule) /\ isContainerPlacedOf(pickingModule)
    /\ Committed(pickingModule) # {}

(***************************************************************************)
(* C40: grid engines: whenever the container is placed the selected column *)
(* index lies in 0 .. columnCount - 1; a successful placeBox() appends the *)
(* pending box as the new top of exactly the selected column, leaves every *)
(* other column unchanged and does not change the selected index;          *)
(* generateNewBox() and a failed placeBox() do not change the selected     *)
(* index either.                                                           *)
(***************************************************************************)
SelectionInRange(m) ==
    (IsGrid(m) /\ isContainerPlacedOf(m)) =>
        m.selectedStackIndex \in 0..(Len(m.stacks) - 1)

C40_SelectedColumn ==
    /\ [](SelectionInRange(cubagemModule) /\ SelectionInRange(pickingModule))
    /\ [][ LET m   == getActiveModule
               m2  == ActiveModuleAfter
               sel == m.selectedStackIndex + 1
           IN  IsGrid(m) =>
                 /\ (PlaceStep /\ lastResult'.success) =>
                       /\ Len(m2.stacks) = Len(m.stacks)
                       /\ Len(m2.stacks[sel]) = Len(m.stacks[sel]) + 1
                       /\ SubSeq(m2.stacks[sel], 1, Len(m.stacks[sel])) = m.stacks[sel]
                       /\ AsCreated(m2.stacks[sel][Len(m2.stacks[sel])])
                              = AsCreated(setPreviewMode(m.currentBox, FALSE))
                       /\ \A c \in 1..Len(m.stacks) :
                              c # sel => m2.stacks[c] = m.stacks[c]
                       /\ m2.selectedStackIndex = m.selectedStackIndex
                 /\ (PlaceStep /\ ~lastResult'.success) =>
                       m2.selectedStackIndex = m.selectedStackIndex
                 /\ GenerateStep => m2.selectedStackIndex = m.selectedStackIndex ]_vars

\* a box was committed to the second column while the first column holds
\* a box, and the second column is still the selected one
C40_Witness ==
    /\ lastResult.op = "placeBox"
    /\ lastResult.success
    /\ IsGrid(getActiveModule)
    /\ getActiveModule.selectedStackIndex = 1
    /\ Len(getActiveModule.stacks[1]) = 1
    /\ Len(getActiveModule.stacks[2]) = 1

====
